---- MODULE Spec2Model ----
(***************************************************************************)
(* Text layout engine of the image text overlay service (src/server.js):   *)
(* estimateTextWidth, wrapText, breakLongWord, calculateOptimalFontSize.   *)
(*                                                                         *)
(* Numbers.  The code computes in IEEE doubles.  The model keeps every      *)
(* number as its value to a fixed unit, a whole number of                  *)
(*   font sizes              1/100 px      (1200 is 12px)                  *)
(*   font multipliers        1/100         (52 is 0.52)                    *)
(*   class corrections       1/100         (40 is 0.4)                     *)
(*   widths                  1/1000000 px  (size x multiplier x class)     *)
(*   line-height multiplier  1/100         (130 is 1.3)                    *)
(*   heights                 1/10000 px    (lines x size x multiplier)     *)
(*   image width and height  in px, padding percent in percent             *)
(* and, where the code compares it, with the expression the code computed  *)
(* it by: a number is a record [v, x], v the value to the unit and x the   *)
(* expression.  The inputs are decimal numbers of these units, so the      *)
(* exact values of two numbers compared are equal or at least one unit     *)
(* apart, while a double is within a billionth of a unit of the exact      *)
(* value: two numbers whose v differ compare as their v do, and two whose  *)
(* v are equal compare as the doubles of their expressions, which          *)
(* doubleOf computes by the rules of IEEE-754 binary64 arithmetic.         *)
(* A width is a number with a field nan, TRUE when the JavaScript value is *)
(* NaN (every comparison with it is false).                                *)
(* A text is the sequence of its UTF-16 code units, which is what          *)
(* word.length and word[i] count.  A code unit is written as the           *)
(* character itself when it is printable ASCII, as "\t", "\n", "\f" or    *)
(* "\r" for these controls, and as "U+" and its four hexadecimal digits    *)
(* in capitals otherwise ("U+00A0", "U+D83D").                             *)
(***************************************************************************)
EXTENDS Integers, Sequences, FiniteSets, TLC

VARIABLES
    pc,          \* which call the state records: "idle" before any call
    text,        \* the text (or word) argument of the call
    maxWidth,    \* wrapText / breakLongWord: the maxWidth argument
    fontSize,    \* the fontSize argument; the probe size during the search
    fontFamily,  \* the fontFamily argument
    fontWeight,  \* the fontWeight argument
    result,      \* the value the call returned
    box,         \* calculateOptimalFontSize: imageWidth, imageHeight and options
    low,         \* calculateOptimalFontSize: local low
    high,        \* calculateOptimalFontSize: local high
    bestResult,  \* calculateOptimalFontSize: local bestResult, << >> is null
    probes,      \* history: the sizes probed so far, each with its verdict
    request,     \* the HTTP request being handled, << >> when there is none
    source,      \* what the image codec does with the request's image
    calls,       \* history: the codec and layout calls made for the request
    responses,   \* the responses sent for the request, in order
    files,       \* the names written to the public upload directory, in order
    now          \* Date.now(), in milliseconds

\* the state of the HTTP layer
serverVars == <<request, source, calls, responses, files, now>>

vars == <<pc, text, maxWidth, fontSize, fontFamily, fontWeight, result,
          box, low, high, bestResult, probes, request, source, calls,
          responses, files, now>>

----------------------------------------------------------------------------
(* Bounds of the model *)

\* longest text handed to wrapText and breakLongWord
MaxLen == 5

\* longest text handed to estimateTextWidth on its own
MaxEstimateLen == 2

\* largest font size bound handed to calculateOptimalFontSize, in px
MaxFontPx == 18

\* most iterations of the search loop followed in one call: a search between
\* finite bounds of the model ends within 5
MaxProbes == 6

\* most uploads to /api/upload_public in one run
MaxUploads == 3

\* last millisecond of the clock
MaxClock == 2

\* largest value of Math.round(Math.random() * 1E9) drawn in the model, which
\* stands for the 1E9 of the code
MaxRandom == 2

----------------------------------------------------------------------------
(* IEEE-754 binary64 arithmetic, as JavaScript numbers compute.             *)
(* A natural number of any size is a sequence of limbs in base 16384, the   *)
(* least significant first; << >> is zero.  A double is a record [s, n, e]  *)
(* of value s * n * 2^e, with s the sign (1 or -1), n a natural number of   *)
(* at most 53 bits and e an integer.  The numbers of the program stay far   *)
(* from the subnormal range and from overflow, which are left out.          *)

Limb == 16384
LimbBits == 14
MantissaBits == 53

\* the natural number of a non-negative integer
RECURSIVE natOf(_)
natOf(i) == IF i = 0 THEN <<>> ELSE <<i % Limb>> \o natOf(i \div Limb)

\* without the zero limbs at the top
RECURSIVE natTrim(_)
natTrim(a) ==
    IF a = <<>> THEN <<>>
    ELSE IF a[Len(a)] = 0 THEN natTrim(SubSeq(a, 1, Len(a) - 1))
    ELSE a

\* a + sign * b + carry from limb k on; a >= b when sign is -1
RECURSIVE natSum(_, _, _, _, _)
natSum(a, sign, b, k, carry) ==
    IF k > Len(a) /\ k > Len(b)
    THEN IF carry = 0 THEN <<>> ELSE <<carry>>
    ELSE LET sum == (IF k <= Len(a) THEN a[k] ELSE 0)
                    + sign * (IF k <= Len(b) THEN b[k] ELSE 0) + carry
         IN  <<sum % Limb>> \o natSum(a, sign, b, k + 1, sum \div Limb)

\* -1, 0 or 1 as a is below, equal to or above b, comparing from limb k down
RECURSIVE natCmp(_, _, _)
natCmp(a, b, k) ==
    IF k = 0 THEN 0
    ELSE LET x == IF k <= Len(a) THEN a[k] ELSE 0
             y == IF k <= Len(b) THEN b[k] ELSE 0
         IN  IF x < y THEN -1 ELSE IF x > y THEN 1 ELSE natCmp(a, b, k - 1)

\* a * m + carry from limb k on, for 0 <= m <= Limb
RECURSIVE natMulSmall(_, _, _, _)
natMulSmall(a, m, k, carry) ==
    IF k > Len(a)
    THEN IF carry = 0 THEN <<>> ELSE <<carry>>
    ELSE LET prod == a[k] * m + carry
         IN  <<prod % Limb>> \o natMulSmall(a, m, k + 1, prod \div Limb)

\* a * 2^bits
natShl(a, bits) ==
    [j \in 1..(bits \div LimbBits) |-> 0] \o natMulSmall(a, 2^(bits % LimbBits), 1, 0)

\* a * b, the limbs of b from k on
RECURSIVE natMul(_, _, _)
natMul(a, b, k) ==
    IF k > Len(b) THEN <<>>
    ELSE natSum([j \in 1..(k - 1) |-> 0] \o natMulSmall(a, b[k], 1, 0), 1,
                natMul(a, b, k + 1), 1, 0)

\* long division of (rem, limbs k down to 1 of a) by m, for
\* 0 <= rem < m <= Limb: the limbs of the quotient from the top one down,
\* then the remainder
RECURSIVE natLongDivision(_, _, _, _)
natLongDivision(a, m, k, rem) ==
    IF k = 0 THEN <<rem>>
    ELSE LET cur == rem * Limb + a[k]
         IN  <<cur \div m>> \o natLongDivision(a, m, k - 1, cur % m)

\* the quotient q and the remainder r read off a long division of n limbs
natDivided(digits, n) ==
    [q |-> [k \in 1..n |-> digits[n + 1 - k]], r |-> digits[n + 1]]

\* the quotient q and the remainder r of a by m, for 0 < m <= Limb
natDiv(a, m) == natDivided(natLongDivision(a, m, Len(a), 0), Len(a))

\* n divided k times by m: the quotient q, and left, whether a division left
\* a remainder
RECURSIVE natQuotient(_, _, _, _)
natQuotient(n, m, k, left) ==
    IF k = 0 THEN [q |-> n, left |-> left]
    ELSE LET d == natDiv(n, m)
         IN  IF d.r = 0 THEN natQuotient(d.q, m, k - 1, left)
             ELSE natQuotient(d.q, m, k - 1, TRUE)

\* the number of bits of a small non-negative integer
RECURSIVE bitLen(_)
bitLen(i) == IF i = 0 THEN 0 ELSE 1 + bitLen(i \div 2)

\* the double of sign s and exponent e once the low bits of a mantissa are
\* cut off: d.q is the mantissa kept, d.r the top limb cut off, half the
\* middle of its range, lowZero whether nothing was cut off below it; a tie
\* goes to the even mantissa
dblRoundCut(s, e, d, half, lowZero) ==
    [s |-> s,
     n |-> natTrim(IF d.r > half \/ (d.r = half /\ (~lowZero \/ d.q[1] % 2 = 1))
                   THEN natSum(d.q, 1, <<1>>, 1, 0)
                   ELSE d.q),
     e |-> e]

\* the double nearest to s * n * 2^e, n having extra bits beyond the 53
dblRoundBits(s, n, e, extra) ==
    IF extra <= 0 THEN [s |-> s, n |-> n, e |-> e]
    ELSE LET whole == (extra - 1) \div LimbBits
             half == 2^((extra - 1) % LimbBits)
         IN  dblRoundCut(s, e + extra,
                         natDiv(SubSeq(n, whole + 1, Len(n)), 2 * half),
                         half, \A j \in 1..whole : n[j] = 0)

dblRoundTrimmed(s, n, e) ==
    dblRoundBits(s, n, e,
                 IF n = <<>> THEN 0
                 ELSE (Len(n) - 1) * LimbBits + bitLen(n[Len(n)]) - MantissaBits)

\* the double nearest to t.s * t.n * 2^t.e, t.n of any size
dblRound(t) == IF t.n = <<>> THEN t ELSE dblRoundTrimmed(t.s, natTrim(t.n), t.e)

\* bits kept below the point of a quotient before it is rounded, beyond the
\* bits of the divisor
QuotientBits == 84

\* the bits a is shifted by before it is divided k times by m <= Limb, so
\* that the quotient keeps QuotientBits bits or more
quotientShift(k) == QuotientBits + LimbBits * k

\* the quotient d.q with one bit appended that is set when a division left a
\* remainder
exactSticky(s, e, d) ==
    [s |-> s, n |-> natMulSmall(d.q, 2, 1, IF d.left THEN 1 ELSE 0), e |-> e]

\* a / m^k before it is rounded, for whole numbers 0 < m <= Limb and k
exactQuotient(a, m, k) ==
    IF a.n = <<>> THEN a
    ELSE exactSticky(a.s, a.e - quotientShift(k) - 1,
                     natQuotient(natShl(a.n, quotientShift(k)), m, k, FALSE))

\* a * b before it is rounded
exactTimes(a, b) ==
    IF a.n = <<>> THEN a
    ELSE IF b.n = <<>> THEN b
    ELSE [s |-> a.s * b.s, n |-> natMul(a.n, b.n, 1), e |-> a.e + b.e]

\* sa * an + sb * bn at the exponent e, c being -1, 0 or 1 as an is below,
\* equal to or above bn
exactOrdered(c, sa, an, sb, bn, e) ==
    [s |-> IF c >= 0 THEN sa ELSE sb,
     n |-> natTrim(natSum(IF c >= 0 THEN an ELSE bn, sa * sb,
                          IF c >= 0 THEN bn ELSE an, 1, 0)),
     e |-> e]

exactAligned(sa, an, sb, bn, e) ==
    exactOrdered(natCmp(an, bn, IF Len(an) >= Len(bn) THEN Len(an) ELSE Len(bn)),
                 sa, an, sb, bn, e)

\* a + b before it is rounded
exactPlus(a, b) ==
    IF a.n = <<>> THEN b
    ELSE IF b.n = <<>> THEN a
    ELSE LET e == IF a.e <= b.e THEN a.e ELSE b.e
         IN  exactAligned(a.s, natShl(a.n, a.e - e), b.s, natShl(b.n, b.e - e), e)

\* -1, 0 or 1 as a is below, equal to or above zero
dblSign(a) == IF a.n = <<>> THEN 0 ELSE a.s

----------------------------------------------------------------------------
(* UTF-16 code units *)

HexDigits ==
    <<"0", "1", "2", "3", "4", "5", "6", "7", "8", "9", "A", "B", "C", "D", "E", "F">>
hexDigit(n) == HexDigits[(n % 16) + 1]

\* the name of the code unit n that is not written as itself
unitName(n) ==
    "U+" \o hexDigit(n \div 4096) \o hexDigit(n \div 256) \o hexDigit(n \div 16)
         \o hexDigit(n)

\* the code units D800-DBFF and DC00-DFFF: a high one followed by a low one
\* is one character outside the basic plane
HighSurrogates == {unitName(n) : n \in 55296..56319}
LowSurrogates == {unitName(n) : n \in 56320..57343}
isHighSurrogate(char) == char \in HighSurrogates
isLowSurrogate(char) == char \in LowSurrogates

----------------------------------------------------------------------------
(* estimateTextWidth, src/server.js 83-118 *)

\* the fontMetrics table, multipliers in 1/100
fontMetrics ==
    [f \in {"Arial", "Helvetica", "Times", "Times New Roman", "Georgia",
            "Courier", "Courier New", "Verdana", "Impact", "Comic Sans MS"} |->
        CASE f \in {"Arial", "Helvetica"}        -> [normal |-> 52, bold |-> 58]
          [] f \in {"Times", "Times New Roman"}  -> [normal |-> 48, bold |-> 54]
          [] f = "Georgia"                       -> [normal |-> 51, bold |-> 57]
          [] f \in {"Courier", "Courier New"}    -> [normal |-> 60, bold |-> 60]
          [] f = "Verdana"                       -> [normal |-> 58, bold |-> 64]
          [] f = "Impact"                        -> [normal |-> 48, bold |-> 48]
          [] f = "Comic Sans MS"                 -> [normal |-> 55, bold |-> 61]]

\* fontMetrics is an object literal: a lookup of a key it does not own finds
\* the property of that name on Object.prototype, a truthy value that has no
\* .normal and no .bold
ObjectPrototypeKeys ==
    {"constructor", "toString", "valueOf", "hasOwnProperty", "isPrototypeOf",
     "propertyIsEnumerable", "toLocaleString", "__proto__",
     "__defineGetter__", "__defineSetter__", "__lookupGetter__",
     "__lookupSetter__"}

\* const metrics = fontMetrics[fontFamily] || { normal: 0.52, bold: 0.58 };
\* const weightMultiplier = fontWeight === 'bold' ? metrics.bold : metrics.normal;
\* undef is TRUE when the multiplier read is undefined
weightMultiplier(family, weight) ==
    IF family \in DOMAIN fontMetrics
    THEN [undef |-> FALSE,
          v |-> IF weight = "bold" THEN fontMetrics[family].bold
                                   ELSE fontMetrics[family].normal]
    ELSE IF family \in ObjectPrototypeKeys
    THEN [undef |-> TRUE, v |-> 0]
    ELSE [undef |-> FALSE, v |-> IF weight = "bold" THEN 58 ELSE 52]

\* the if/else-if chain of lines 107-112, corrections in 1/100
classCorrection(char) ==
    IF char \in {"i", "I", "l", "1"} THEN 40
    ELSE IF char \in {"f", "j", "t", "J"} THEN 50
    ELSE IF char \in {"r", "F"} THEN 65
    ELSE IF char \in {"m", "w", "M", "W"} THEN 150
    ELSE IF char = " " THEN 30
    ELSE IF char \in {".", ",", ";", ":", "!", "|"} THEN 35
    ELSE 100

\* whether the code units n - 1 and n of str are a surrogate pair, which the
\* for-of loop of line 102 reads as one character
isPairEnd(str, n) ==
    n > 1 /\ isLowSurrogate(str[n]) /\ isHighSurrogate(str[n - 1])

\* totalWidth after the first n code units (the for-of loop), to 1/1000000 px;
\* the character that ends at n is one code unit or a surrogate pair, and a
\* pair is in none of the classes
RECURSIVE totalWidth(_, _, _, _)
totalWidth(str, n, size, mult) ==
    IF n = 0 THEN 0
    ELSE IF isPairEnd(str, n)
    THEN totalWidth(str, n - 2, size, mult) + size * (mult * 100)
    ELSE totalWidth(str, n - 1, size, mult) + size * (mult * classCorrection(str[n]))

\* the expressions of numbers: a decimal literal i / 10^k, a product, a sum,
\* the negative, a difference, a quotient by a whole number and the larger
\* of two
Decimal(i, k) == [op |-> "decimal", i |-> i, k |-> k]
Times(a, b) == [op |-> "times", a |-> a, b |-> b]
Plus(a, b) == [op |-> "plus", a |-> a, b |-> b]
Negative(a) == [op |-> "negative", a |-> a]
Minus(a, b) == Plus(a, Negative(b))
Over(a, m) == [op |-> "over", a |-> a, m |-> m]
Max(a, b) == [op |-> "max", a |-> a, b |-> b]

\* charMultiplier of lines 103-112: weightMultiplier, multiplied by the
\* correction when the character is in a class
charMultiplier(char, mult) ==
    IF classCorrection(char) = 100 THEN Decimal(mult, 2)
    ELSE Times(Decimal(mult, 2), Decimal(classCorrection(char), 2))

\* totalWidth after the first n code units as the expression the loop
\* computes: totalWidth += fontSize * charMultiplier, character after
\* character, from 0
RECURSIVE totalWidthExpression(_, _, _, _)
totalWidthExpression(str, n, size, mult) ==
    IF n = 0 THEN Decimal(0, 0)
    ELSE IF isPairEnd(str, n)
    THEN Plus(totalWidthExpression(str, n - 2, size, mult),
              Times(size, Decimal(mult, 2)))
    ELSE Plus(totalWidthExpression(str, n - 1, size, mult),
              Times(size, charMultiplier(str[n], mult)))

\* the double of the expression x: every operation is rounded to the nearest
\* double, and a width is the sum estimateTextWidth adds up
RECURSIVE doubleOf(_)
doubleOf(x) ==
    dblRound(CASE x.op = "decimal" ->
                    exactQuotient([s |-> IF x.i < 0 THEN -1 ELSE 1,
                                   n |-> natOf(IF x.i < 0 THEN -x.i ELSE x.i),
                                   e |-> 0], 10, x.k)
               [] x.op = "times" -> exactTimes(doubleOf(x.a), doubleOf(x.b))
               [] x.op = "plus" -> exactPlus(doubleOf(x.a), doubleOf(x.b))
               [] x.op = "negative" -> [doubleOf(x.a) EXCEPT !.s = -@]
               [] x.op = "over" -> exactQuotient(doubleOf(x.a), x.m, 1)
               [] x.op = "max" ->
                    IF dblSign(doubleOf(Minus(x.a, x.b))) >= 0
                    THEN doubleOf(x.a) ELSE doubleOf(x.b)
               [] x.op = "width" ->
                    doubleOf(totalWidthExpression(x.str, Len(x.str), x.size,
                                                  x.mult)))

\* a number given as a decimal: a font size of v / 100 px, a width of
\* v / 1000000 px.  nan tells the number that is NaN, inf the numbers
\* Infinity (1) and -Infinity (-1); v is the value to the unit and x the
\* expression that computes it
FontSize(v) == [nan |-> FALSE, inf |-> 0, v |-> v, x |-> Decimal(v, 2)]
Width(v) == [nan |-> FALSE, inf |-> 0, v |-> v, x |-> Decimal(v, 6)]

\* the font size or the width that is NaN, and the one that is Infinity
\* (sign 1) or -Infinity (sign -1)
NaNSize == [nan |-> TRUE, inf |-> 0, v |-> 0, x |-> Decimal(0, 0)]
InfiniteSize(sign) == [nan |-> FALSE, inf |-> sign, v |-> 0, x |-> Decimal(0, 0)]

\* -1, 0 or 1 as the finite number a is below, equal to or above the finite
\* number b of the same unit: numbers whose values to the unit are equal are
\* told apart by their doubles, by the sign of the double a - b, which is the
\* sign of the difference of the two doubles
compare(a, b) ==
    IF a.v < b.v THEN -1
    ELSE IF a.v > b.v THEN 1
    ELSE dblSign(doubleOf(Minus(a.x, b.x)))

\* the same for two numbers that are not NaN: -Infinity is below and
\* Infinity above every finite number
order(a, b) ==
    IF a.inf < b.inf THEN -1
    ELSE IF a.inf > b.inf THEN 1
    ELSE IF a.inf # 0 THEN 0
    ELSE compare(a, b)

\* size is a number of 1/100 px; the width returned is a number of
\* 1/1000000 px.  Every character adds fontSize * charMultiplier, which is NaN
\* when the font size is NaN or the multiplier is undefined, and infinite
\* when the font size is, the multipliers being above 0; the width of the
\* empty text is 0
estimateTextWidth(str, size, family, weight) ==
    LET wm == weightMultiplier(family, weight)
    IN  IF wm.undef \/ size.nan \/ size.inf # 0
        THEN IF str = <<>> THEN [nan |-> FALSE, inf |-> 0, v |-> 0, x |-> Decimal(0, 0)]
             ELSE IF wm.undef \/ size.nan THEN NaNSize
             ELSE InfiniteSize(size.inf)
        ELSE [nan |-> FALSE, inf |-> 0,
              v |-> totalWidth(str, Len(str), size.v, wm.v),
              x |-> [op |-> "width", str |-> str, size |-> size.x, mult |-> wm.v]]

\* JavaScript a <= b and a > b of two numbers of one unit: false when one of
\* them is NaN
LE(a, b) == ~a.nan /\ ~b.nan /\ order(a, b) <= 0
GT(a, b) == ~a.nan /\ ~b.nan /\ order(a, b) > 0

----------------------------------------------------------------------------
(* JavaScript string operations used by wrapText *)

\* the code units the regular expression \s, String.prototype.trim and
\* parseInt treat as white space: tab, line feed, vertical tab, form feed,
\* carriage return, space, no-break space, U+1680, U+2000 to U+200A, the line
\* and paragraph separators, U+202F, U+205F, U+3000 and the byte order mark
WhiteSpace ==
    {" ", "\t", "\n", "\r", "\f", "U+000B", "U+00A0", "U+1680", "U+2028",
     "U+2029", "U+202F", "U+205F", "U+3000", "U+FEFF"}
    \cup {unitName(n) : n \in 8192..8202}
isWhitespace(char) == char \in WhiteSpace

\* str.split(sep) for a one-character separator, read left to right: the
\* pieces found in the first n characters
RECURSIVE splitChars(_, _, _)
splitChars(str, n, sep) ==
    IF n = 0 THEN << <<>> >>
    ELSE LET before == splitChars(str, n - 1, sep)
             k == Len(before)
         IN  IF str[n] = sep
             THEN Append(before, <<>>)
             ELSE [before EXCEPT ![k] = Append(@, str[n])]

\* paragraph.split(/\s+/): a run of white space separates two words; a run at
\* the start or at the end of the paragraph leaves an empty word there
RECURSIVE splitWhitespace(_, _)
splitWhitespace(str, n) ==
    IF n = 0 THEN << <<>> >>
    ELSE LET before == splitWhitespace(str, n - 1)
             k == Len(before)
         IN  IF isWhitespace(str[n])
             THEN IF n > 1 /\ isWhitespace(str[n - 1])
                  THEN before
                  ELSE Append(before, <<>>)
             ELSE [before EXCEPT ![k] = Append(@, str[n])]

\* !paragraph.trim(): nothing is left of the paragraph once trimmed
isBlank(str) == \A n \in 1..Len(str) : isWhitespace(str[n])

\* words.join(' ')
RECURSIVE joinSpace(_)
joinSpace(words) ==
    IF Len(words) = 0 THEN <<>>
    ELSE IF Len(words) = 1 THEN words[1]
    ELSE words[1] \o <<" ">> \o joinSpace(Tail(words))

\* arr.slice(0, -1)
sliceButLast(arr) == IF Len(arr) = 0 THEN <<>> ELSE SubSeq(arr, 1, Len(arr) - 1)

----------------------------------------------------------------------------
(* breakLongWord, src/server.js 178-209 *)

\* the loop closing a fragment without the hyphen of line 194
RECURSIVE MutBreakLoopNoHyphen(_, _, _, _, _, _, _, _)
MutBreakLoopNoHyphen(word, i, parts, currentPart, width, size, family, weight) ==
    IF i > Len(word)
    THEN IF currentPart # <<>> THEN Append(parts, currentPart) ELSE parts
    ELSE LET char == word[i]
             testPart == Append(currentPart, char)
             testWidth == estimateTextWidth(Append(testPart, "-"), size, family, weight)
         IN  IF LE(testWidth, width) /\ i < Len(word)
             THEN MutBreakLoopNoHyphen(word, i + 1, parts, testPart, width, size,
                                       family, weight)
             ELSE IF currentPart # <<>>
             THEN MutBreakLoopNoHyphen(word, i + 1, Append(parts, currentPart),
                                       <<char>>, width, size, family, weight)
             ELSE MutBreakLoopNoHyphen(word, i + 1, Append(parts, <<char>>),
                                       <<>>, width, size, family, weight)

\* the for loop of lines 185-202 from index i (1-based here) on, then the
\* final push of lines 204-206
RECURSIVE breakLoop(_, _, _, _, _, _, _, _)
breakLoop(word, i, parts, currentPart, width, size, family, weight) ==
    IF i > Len(word)
    THEN IF currentPart # <<>> THEN Append(parts, currentPart) ELSE parts
    ELSE LET char == word[i]
             testPart == Append(currentPart, char)
             testWidth == estimateTextWidth(Append(testPart, "-"), size, family, weight)
         IN  IF LE(testWidth, width) /\ i < Len(word)
             THEN breakLoop(word, i + 1, parts, testPart, width, size, family, weight)
             ELSE IF currentPart # <<>>
             THEN breakLoop(word, i + 1, Append(parts, Append(currentPart, "-")),
                            <<char>>, width, size, family, weight)
             ELSE breakLoop(word, i + 1, Append(parts, <<char>>),
                            <<>>, width, size, family, weight)

\* breakLongWord without the early return of line 180
MutBreakLongWordNoEarlyReturn(word, width, size, family, weight) ==
    breakLoop(word, 1, <<>>, <<>>, width, size, family, weight)

\* breakLongWord: the early return of lines 179-180, then the loop
breakLongWord(word, width, size, family, weight) ==
    IF LE(estimateTextWidth(word, size, family, weight), width)
    THEN <<word>>
    ELSE breakLoop(word, 1, <<>>, <<>>, width, size, family, weight)

----------------------------------------------------------------------------
(* wrapText, src/server.js 121-175 *)

\* one iteration of the word loop, lines 136-165.  acc holds the loop's
\* lines and currentLine; an undefined currentLine (line 162 on an empty
\* brokenWords) is falsy like the empty string and is kept as << >>
wrapWord(acc, word, width, size, family, weight) ==
    LET currentLine == acc.currentLine
        testLine == IF currentLine # <<>> THEN currentLine \o <<" ">> \o word ELSE word
        testWidth == estimateTextWidth(testLine, size, family, weight)
        brokenWords == breakLongWord(word, width, size, family, weight)
    IN  IF LE(testWidth, width)
        THEN [lines |-> acc.lines, currentLine |-> testLine]
        ELSE IF currentLine # <<>>
        THEN IF GT(estimateTextWidth(word, size, family, weight), width)
             THEN IF Len(brokenWords) > 1
                  THEN [lines |-> Append(Append(acc.lines, currentLine), brokenWords[1]),
                        currentLine |-> joinSpace(Tail(brokenWords))]
                  ELSE [lines |-> Append(acc.lines, currentLine), currentLine |-> word]
             ELSE [lines |-> Append(acc.lines, currentLine), currentLine |-> word]
        ELSE [lines |-> acc.lines \o sliceButLast(brokenWords),
              currentLine |-> IF Len(brokenWords) = 0 THEN <<>>
                              ELSE brokenWords[Len(brokenWords)]]

\* the word loop over the first n words
RECURSIVE wrapWords(_, _, _, _, _, _)
wrapWords(words, n, width, size, family, weight) ==
    IF n = 0 THEN [lines |-> <<>>, currentLine |-> <<>>]
    ELSE wrapWord(wrapWords(words, n - 1, width, size, family, weight),
                  words[n], width, size, family, weight)

\* the paragraph loop body without the blank-paragraph branch of lines 127-130
MutWrapParagraphNoBlankLine(paragraph, width, size, family, weight) ==
    LET words == splitWhitespace(paragraph, Len(paragraph))
        done == wrapWords(words, Len(words), width, size, family, weight)
    IN  IF done.currentLine # <<>>
        THEN Append(done.lines, done.currentLine)
        ELSE done.lines

\* the lines one paragraph contributes to allLines, lines 127-171
wrapParagraph(paragraph, width, size, family, weight) ==
    IF isBlank(paragraph)
    THEN << <<>> >>
    ELSE LET words == splitWhitespace(paragraph, Len(paragraph))
             done == wrapWords(words, Len(words), width, size, family, weight)
         IN  IF done.currentLine # <<>>
             THEN Append(done.lines, done.currentLine)
             ELSE done.lines

\* the paragraph loop over the first n paragraphs
RECURSIVE wrapParagraphs(_, _, _, _, _, _)
wrapParagraphs(paragraphs, n, width, size, family, weight) ==
    IF n = 0 THEN <<>>
    ELSE wrapParagraphs(paragraphs, n - 1, width, size, family, weight)
         \o wrapParagraph(paragraphs[n], width, size, family, weight)

wrapText(str, width, size, family, weight) ==
    LET paragraphs == splitChars(str, Len(str), "\n")
    IN  wrapParagraphs(paragraphs, Len(paragraphs), width, size, family, weight)

----------------------------------------------------------------------------
(* calculateOptimalFontSize, src/server.js 212-255 *)

\* Math.min(a, b)
MathMin(a, b) == IF a <= b THEN a ELSE b

\* Math.round(x / 100 / 2) for x in 1/100, as a size in 1/100 px: the nearest
\* integer number of pixels, a half rounding up
MathRoundHalf(x) == 100 * ((x + 100) \div 200)

\* a whole number, the number that is NaN, and Infinity (sign 1) or
\* -Infinity (sign -1)
Whole(n) == [nan |-> FALSE, inf |-> 0, v |-> n]
NaN == [nan |-> TRUE, inf |-> 0, v |-> 0]
Infinity(sign) == [nan |-> FALSE, inf |-> sign, v |-> 0]

\* -1, 0 or 1 as a number that is not NaN is below, equal to or above zero
signOf(a) ==
    IF a.inf # 0 THEN a.inf
    ELSE IF a.v < 0 THEN -1
    ELSE IF a.v > 0 THEN 1
    ELSE 0

\* the number v / 10^k, written with k decimals, and the numbers that are
\* NaN, Infinity (sign 1) and -Infinity (sign -1)
Fraction(v, k) == [nan |-> FALSE, inf |-> 0, v |-> v, k |-> k]
NaNFraction == [nan |-> TRUE, inf |-> 0, v |-> 0, k |-> 2]
InfiniteFraction(sign) == [nan |-> FALSE, inf |-> sign, v |-> 0, k |-> 2]

\* 10^k
RECURSIVE Pow10(_)
Pow10(k) == IF k = 0 THEN 1 ELSE 10 * Pow10(k - 1)

\* a height: v in a unit that follows from the decimals k of
\* lineHeightMultiplier, 1 / (100 * 10^k) px for a line height (1/10000 px for
\* a multiplier of two decimals); NaN, Infinity and -Infinity as above
Height(v) == [nan |-> FALSE, inf |-> 0, v |-> v]
NaNHeight == [nan |-> TRUE, inf |-> 0, v |-> 0]
InfiniteHeight(sign) == [nan |-> FALSE, inf |-> sign, v |-> 0]

\* n * a for a whole number n: 0 * Infinity is NaN
heightTimes(n, a) ==
    IF a.nan \/ (a.inf # 0 /\ n = 0) THEN NaNHeight
    ELSE IF a.inf # 0 THEN InfiniteHeight(IF n > 0 THEN a.inf ELSE 0 - a.inf)
    ELSE Height(n * a.v)

\* a + b and a - b: Infinity - Infinity is NaN
heightPlus(a, b) ==
    IF a.nan \/ b.nan \/ a.inf * b.inf < 0 THEN NaNHeight
    ELSE IF a.inf # 0 THEN a
    ELSE IF b.inf # 0 THEN b
    ELSE Height(a.v + b.v)
heightMinus(a, b) == heightPlus(a, heightTimes(0 - 1, b))

\* fontSize * lineHeightMultiplier for a font size of 1/100 px (lines 234,
\* 249 and 305): NaN when a factor is NaN and for 0 * Infinity, infinite
\* when a factor is infinite
lineHeightOf(size, mult) ==
    IF size.nan \/ mult.nan THEN NaNHeight
    ELSE IF size.inf = 0 /\ mult.inf = 0 THEN Height(size.v * mult.v)
    ELSE IF signOf(size) * signOf(mult) = 0 THEN NaNHeight
    ELSE InfiniteHeight(signOf(size) * signOf(mult))

\* padding = Math.min(imageWidth, imageHeight) * (paddingPercent / 100), line
\* 223, to 1/100 px: NaN when paddingPercent is NaN and for 0 * Infinity,
\* infinite when paddingPercent is infinite
padding(b) ==
    LET side == MathMin(b.imageWidth, b.imageHeight)
    IN  IF b.paddingPercent.nan THEN NaN
        ELSE IF b.paddingPercent.inf = 0 THEN Whole(side * b.paddingPercent.v)
        ELSE IF side = 0 THEN NaN
        ELSE Infinity(IF side > 0 THEN b.paddingPercent.inf
                      ELSE 0 - b.paddingPercent.inf)

\* padding * 2 as the code computes it, lines 223-225
doublePadding(b) ==
    Times(Times(Decimal(MathMin(b.imageWidth, b.imageHeight), 0),
                Over(Decimal(b.paddingPercent.v, 0), 100)),
          Decimal(2, 0))

\* maxTextWidth = imageWidth - (padding * 2), a number of 1/1000000 px; NaN
\* when the padding is, infinite when the padding is infinite
maxTextWidth(b) ==
    IF padding(b).nan THEN NaNSize
    ELSE IF padding(b).inf # 0 THEN InfiniteSize(0 - padding(b).inf)
    ELSE [nan |-> FALSE, inf |-> 0,
          v |-> 10000 * (100 * b.imageWidth - 2 * padding(b).v),
          x |-> Minus(Decimal(b.imageWidth, 0), doublePadding(b))]

\* maxTextHeight = imageHeight - (padding * 2), a height in the unit of the
\* line height
maxTextHeight(b) ==
    IF padding(b).nan
    THEN [nan |-> TRUE, inf |-> 0, v |-> 0, x |-> Decimal(0, 0)]
    ELSE IF padding(b).inf # 0
    THEN [nan |-> FALSE, inf |-> 0 - padding(b).inf, v |-> 0, x |-> Decimal(0, 0)]
    ELSE [nan |-> FALSE, inf |-> 0,
          v |-> Pow10(b.lineHeightMultiplier.k)
                    * (100 * b.imageHeight - 2 * padding(b).v),
          x |-> Minus(Decimal(b.imageHeight, 0), doublePadding(b))]

\* { fontSize, wrappedLines, lineHeight } at the size given, a number of
\* 1/100 px: lines 233-235 and 248-251; fontSize to 1/100 px, NaN or
\* infinite as the size is, lineHeight a height
layoutAt(str, b, size) ==
    [fontSize |-> [nan |-> size.nan, inf |-> size.inf, v |-> size.v],
     wrappedLines |-> wrapText(str, maxTextWidth(b), size, b.fontFamily, b.fontWeight),
     lineHeight |-> lineHeightOf(size, b.lineHeightMultiplier)]

\* totalTextHeight = wrappedLines.length * lineHeight of the layout of a
\* probe, with lineHeight = fontSize * lineHeightMultiplier: a height, with
\* the expression that computes it
totalTextHeight(layout, b) ==
    LET total == heightTimes(Len(layout.wrappedLines), layout.lineHeight)
    IN  [nan |-> total.nan, inf |-> total.inf, v |-> total.v,
         x |-> IF total.nan \/ total.inf # 0 THEN Decimal(0, 0)
               ELSE Times(Decimal(Len(layout.wrappedLines), 0),
                          Times(Decimal(layout.fontSize.v, 2),
                                Decimal(b.lineHeightMultiplier.v,
                                        b.lineHeightMultiplier.k)))]

\* JavaScript a <= b of two heights: false when one is NaN, decided by the
\* signs when one is infinite
heightLE(a, b) ==
    /\ ~a.nan
    /\ ~b.nan
    /\ \/ a.inf < b.inf
       \/ a.inf = b.inf /\ (a.inf # 0 \/ compare(a, b) <= 0)

\* the condition without its limit on the number of lines
MutFitsIgnoresMaxLines(layout, b) ==
    heightLE(totalTextHeight(layout, b), maxTextHeight(b))

\* the condition of line 238
fits(layout, b) ==
    /\ heightLE(totalTextHeight(layout, b), maxTextHeight(b))
    /\ Len(layout.wrappedLines) <= b.maxLines

\* high - low, for two numbers of 1/100 px: NaN when one of them is NaN and
\* for the difference of two infinities of one sign
difference(hi, lo) ==
    IF hi.nan \/ lo.nan \/ (hi.inf # 0 /\ hi.inf = lo.inf) THEN NaNSize
    ELSE IF hi.inf # 0 THEN InfiniteSize(hi.inf)
    ELSE IF lo.inf # 0 THEN InfiniteSize(0 - lo.inf)
    ELSE [nan |-> FALSE, inf |-> 0, v |-> hi.v - lo.v, x |-> Minus(hi.x, lo.x)]

\* the loop condition of line 232, high - low > 1, for two numbers of
\* 1/100 px
searching(lo, hi) == GT(difference(hi, lo), FontSize(100))

\* whether the double (low + high) / 2 is at or above the half px + 1/2 its
\* exact value lies on
reachesHalf(lo, hi, px) ==
    dblSign(doubleOf(Minus(Over(Plus(lo.x, hi.x), 2), Decimal(10 * px + 5, 1)))) >= 0

\* the probe with the parentheses lost: Math.round(low + high / 2)
MutProbeSizePrecedence(lo, hi) ==
    IF lo.nan \/ hi.nan \/ lo.inf * hi.inf < 0 THEN NaNSize
    ELSE IF lo.inf # 0 THEN InfiniteSize(lo.inf)
    ELSE IF hi.inf # 0 THEN InfiniteSize(hi.inf)
    ELSE FontSize(MathRoundHalf(2 * lo.v + hi.v))

\* the size the loop probes, line 233: Math.round((low + high) / 2), a whole
\* number of px.  When the exact value of (low + high) / 2 lies on a half,
\* the double decides which way it rounds.  The sum of -Infinity and
\* Infinity is NaN, and the probe is infinite when one bound is
probeSize(lo, hi) ==
    IF lo.nan \/ hi.nan \/ lo.inf * hi.inf < 0 THEN NaNSize
    ELSE IF lo.inf # 0 THEN InfiniteSize(lo.inf)
    ELSE IF hi.inf # 0 THEN InfiniteSize(hi.inf)
    ELSE IF (lo.v + hi.v) % 200 = 100
    THEN LET px == (lo.v + hi.v) \div 200
         IN  IF reachesHalf(lo, hi, px) THEN FontSize(100 * (px + 1))
             ELSE FontSize(100 * px)
    ELSE FontSize(MathRoundHalf(lo.v + hi.v))

\* the fallback taking the other bound
MutFallbackAtMax(str, b) == layoutAt(str, b, b.maxFontSize)

\* the fallback of lines 247-252
fallback(str, b) == layoutAt(str, b, b.minFontSize)

\* Math.max(a, b)
MathMax(a, b) == IF a >= b THEN a ELSE b

\* a destructuring default: the property when the object has it, the default
\* when it is undefined
optionOr(options, key, default) ==
    IF key \in DOMAIN options THEN options[key] ELSE default

\* Math.min(imageWidth, imageHeight) * 0.15 (lines 214, 449 and 558), a
\* number of 1/100 px
defaultMaxFontSize(imageWidth, imageHeight) ==
    [nan |-> FALSE, inf |-> 0,
     v |-> MathMin(imageWidth, imageHeight) * 15,
     x |-> Times(Decimal(MathMin(imageWidth, imageHeight), 0), Decimal(15, 2))]

\* Math.max(12, Math.min(imageWidth, imageHeight) * 0.02) (lines 215, 450 and
\* 559), a number of 1/100 px
defaultMinFontSize(imageWidth, imageHeight) ==
    [nan |-> FALSE, inf |-> 0,
     v |-> MathMax(1200, MathMin(imageWidth, imageHeight) * 2),
     x |-> Max(Decimal(12, 0),
               Times(Decimal(MathMin(imageWidth, imageHeight), 0), Decimal(2, 2)))]

\* the options of calculateOptimalFontSize with the defaults of lines
\* 213-221, and the two dimensions; maxFontSize and minFontSize are numbers
\* of 1/100 px, paddingPercent is a whole number or NaN, lineHeightMultiplier
\* a number with decimals
solverBox(imageWidth, imageHeight, options) ==
    [imageWidth |-> imageWidth,
     imageHeight |-> imageHeight,
     maxFontSize |-> optionOr(options, "maxFontSize",
                              defaultMaxFontSize(imageWidth, imageHeight)),
     minFontSize |-> optionOr(options, "minFontSize",
                              defaultMinFontSize(imageWidth, imageHeight)),
     fontFamily |-> optionOr(options, "fontFamily", "Arial"),
     fontWeight |-> optionOr(options, "fontWeight", "normal"),
     paddingPercent |-> optionOr(options, "paddingPercent", Whole(10)),
     lineHeightMultiplier |-> optionOr(options, "lineHeightMultiplier",
                                       Fraction(130, 2)),
     maxLines |-> optionOr(options, "maxLines", 10)]

\* the fontSize of a layout as a font size, the value low takes at line 240
sizeOf(n) ==
    IF n.nan THEN NaNSize
    ELSE IF n.inf # 0 THEN InfiniteSize(n.inf)
    ELSE FontSize(n.v)

\* fontSize - 1, the value high takes at line 242: NaN stays NaN and an
\* infinite size stays as it is
oneLess(n) ==
    IF n.nan THEN NaNSize
    ELSE IF n.inf # 0 THEN InfiniteSize(n.inf)
    ELSE FontSize(n.v - 100)

\* whether the value given to a bound is the value the bound had: the next
\* iteration then starts from the same low and high as this one
unchanged(new, old) == ~new.nan /\ ~old.nan /\ order(new, old) = 0

\* what stands for the return value of a call that never returns
NoReturn == [returns |-> FALSE]

\* the loop of lines 232-244 run from (lo, hi, best): the bestResult it
\* leaves when it ends, << >> for null; NoReturn when an iteration leaves
\* low and high as they were, so that the loop never ends
RECURSIVE searchLoop(_, _, _, _, _)

\* lines 236-243 for the layout of one probe, and the rest of the loop
searchStep(str, b, lo, hi, best, layout) ==
    IF fits(layout, b)
    THEN IF unchanged(sizeOf(layout.fontSize), lo) THEN NoReturn
         ELSE searchLoop(str, b, sizeOf(layout.fontSize), hi, <<layout>>)
    ELSE IF unchanged(oneLess(layout.fontSize), hi) THEN NoReturn
         ELSE searchLoop(str, b, lo, oneLess(layout.fontSize), best)

searchLoop(str, b, lo, hi, best) ==
    IF searching(lo, hi)
    THEN searchStep(str, b, lo, hi, best, layoutAt(str, b, probeSize(lo, hi)))
    ELSE [returns |-> TRUE, bestResult |-> best]

\* lines 246-254: the bestResult of the loop, or the fallback when it is
\* null; nothing when the loop never ends
bestOrFallback(str, b, loop) ==
    IF loop = NoReturn THEN NoReturn
    ELSE IF loop.bestResult = <<>> THEN fallback(str, b)
    ELSE loop.bestResult[1]

\* the search over the box b, lines 228-254
searchBest(str, b) ==
    bestOrFallback(str, b, searchLoop(str, b, b.minFontSize, b.maxFontSize, <<>>))

\* calculateOptimalFontSize as one call
calculateOptimalFontSize(str, imageWidth, imageHeight, options) ==
    searchBest(str, solverBox(imageWidth, imageHeight, options))

----------------------------------------------------------------------------
(* createTextSVG, src/server.js 258-366 *)

\* the options of createTextSVG with the defaults of lines 259-281: the
\* font sizes are numbers of 1/100 px, the other numbers whole numbers or
\* NaN, lineHeightMultiplier a number with decimals, and the names and the
\* colours are the strings of the request
svgOptions(options) ==
    [fontSize |-> optionOr(options, "fontSize", FontSize(3200)),
     fontFamily |-> optionOr(options, "fontFamily", "Arial"),
     fontWeight |-> optionOr(options, "fontWeight", "normal"),
     color |-> optionOr(options, "color", "#ffffff"),
     textAlign |-> optionOr(options, "textAlign", "center"),
     positionX |-> optionOr(options, "positionX", Whole(50)),
     positionY |-> optionOr(options, "positionY", Whole(50)),
     imageWidth |-> optionOr(options, "imageWidth", 800),
     imageHeight |-> optionOr(options, "imageHeight", 600),
     autoResize |-> optionOr(options, "autoResize", TRUE),
     maxFontSize |-> optionOr(options, "maxFontSize", FontSize(10000)),
     minFontSize |-> optionOr(options, "minFontSize", FontSize(1200)),
     paddingPercent |-> optionOr(options, "paddingPercent", Whole(10)),
     lineHeightMultiplier |-> optionOr(options, "lineHeightMultiplier",
                                       Fraction(130, 2)),
     shadowEnabled |-> optionOr(options, "shadowEnabled", TRUE),
     shadowColor |-> optionOr(options, "shadowColor", "rgba(0,0,0,0.7)"),
     shadowBlur |-> optionOr(options, "shadowBlur", Whole(4)),
     shadowOffset |-> optionOr(options, "shadowOffset", Whole(2)),
     strokeEnabled |-> optionOr(options, "strokeEnabled", FALSE),
     strokeColor |-> optionOr(options, "strokeColor", "#000000"),
     strokeWidth |-> optionOr(options, "strokeWidth", Whole(1))]

\* the options createTextSVG hands to calculateOptimalFontSize, lines 289-296
svgSolverOptions(o) ==
    [maxFontSize |-> o.maxFontSize,
     minFontSize |-> o.minFontSize,
     fontFamily |-> o.fontFamily,
     fontWeight |-> o.fontWeight,
     paddingPercent |-> o.paddingPercent,
     lineHeightMultiplier |-> o.lineHeightMultiplier]

\* finalFontSize, lines and lineHeight taken from the result of
\* calculateOptimalFontSize, lines 297-299
svgResized(solved) ==
    IF solved = NoReturn THEN NoReturn
    ELSE [fontSize |-> solved.fontSize,
          wrappedLines |-> solved.wrappedLines,
          lineHeight |-> solved.lineHeight]

\* the layout with the autoResize flag ignored
MutSvgLayoutAlwaysResizes(str, o) ==
    svgResized(calculateOptimalFontSize(str, o.imageWidth, o.imageHeight,
                                        svgSolverOptions(o)))

\* finalFontSize, lines and lineHeight, lines 283-306; finalFontSize is a
\* number of 1/100 px, NaN or infinite; NoReturn when calculateOptimalFontSize
\* never returns
svgLayout(str, o) ==
    IF o.autoResize
    THEN svgResized(calculateOptimalFontSize(str, o.imageWidth, o.imageHeight,
                                             svgSolverOptions(o)))
    ELSE [fontSize |-> [nan |-> o.fontSize.nan, inf |-> o.fontSize.inf,
                        v |-> o.fontSize.v],
          wrappedLines |-> wrapText(str, maxTextWidth(o), o.fontSize,
                                    o.fontFamily, o.fontWeight),
          lineHeight |-> lineHeightOf(o.fontSize, o.lineHeightMultiplier)]

\* text-anchor and x of lines 313-325, x in 1/100 px or NaN
svgAnchor(o) ==
    IF o.textAlign = "left" THEN "start"
    ELSE IF o.textAlign = "right" THEN "end"
    ELSE "middle"

svgX(o) ==
    IF o.textAlign = "left"
    THEN heightTimes(o.imageWidth, o.paddingPercent)
    ELSE IF o.textAlign = "right"
    THEN heightMinus(Whole(100 * o.imageWidth),
                     heightTimes(o.imageWidth, o.paddingPercent))
    ELSE heightTimes(o.imageWidth, o.positionX)

\* y of lines 328-337 for count lines, with the zones ending at topZone
\* and starting at bottomZone: a height in half the unit of the line height
\* (totalTextHeight / 2 is then a whole number).  A comparison with NaN is
\* false, so that a positionY that is NaN takes the last branch
svgYZones(o, count, lineHeight, topZone, bottomZone) ==
    LET unit == Pow10(o.lineHeightMultiplier.k)
        totalTextHeight2 == heightTimes(count, lineHeight)
        verticalPadding == heightTimes(2 * (o.imageHeight * unit), o.paddingPercent)
    IN  IF /\ ~o.positionY.nan
           /\ o.positionY.inf < 0 \/ (o.positionY.inf = 0 /\ o.positionY.v <= topZone)
        THEN heightPlus(verticalPadding, heightTimes(2, lineHeight))
        ELSE IF /\ ~o.positionY.nan
                /\ \/ o.positionY.inf > 0
                   \/ o.positionY.inf = 0 /\ o.positionY.v >= bottomZone
        THEN heightPlus(heightMinus(heightMinus(Height(2 * (o.imageHeight * 100 * unit)),
                                                verticalPadding),
                                    heightTimes(2, totalTextHeight2)),
                        heightTimes(2, lineHeight))
        ELSE heightPlus(heightMinus(heightTimes(2 * (o.imageHeight * unit),
                                                o.positionY),
                                    totalTextHeight2),
                        heightTimes(2, lineHeight))

\* the zones taken at 30 and 70 instead of 25 and 75
MutSvgYZonesAtThirty(o, count, lineHeight) == svgYZones(o, count, lineHeight, 30, 70)

\* y of lines 328-337: the zones are positionY <= 25 and positionY >= 75
svgY(o, count, lineHeight) == svgYZones(o, count, lineHeight, 25, 75)

\* str.replace(/c/g, by) for a character c
RECURSIVE replaceAll(_, _, _)
replaceAll(str, char, by) ==
    IF str = <<>> THEN <<>>
    ELSE (IF Head(str) = char THEN by ELSE <<Head(str)>>)
         \o replaceAll(Tail(str), char, by)

\* escapedLine of lines 353-358: the five replacements, one after the other
escapeLine(line) ==
    replaceAll(
        replaceAll(
            replaceAll(
                replaceAll(
                    replaceAll(line, "&", <<"&", "a", "m", "p", ";">>),
                    "<", <<"&", "l", "t", ";">>),
                ">", <<"&", "g", "t", ";">>),
            "\"", <<"&", "q", "u", "o", "t", ";">>),
        "'", <<"&", "#", "3", "9", ";">>)

\* the text elements of lines 351-361: line index (0-based in the code,
\* k - 1 here) at lineY = y + (index * lineHeight), a height in the unit of
\* y, with the escaped line as its content
svgTextElements(lines, x, y, lineHeight) ==
    [k \in 1..Len(lines) |->
        [x |-> x,
         y |-> heightPlus(y, heightTimes(2 * (k - 1), lineHeight)),
         line |-> escapeLine(lines[k])]]

\* the markup of lines 339-365 as its attributes and its text elements, for
\* the options o and the layout of lines 283-310: width, height, the
\* attributes of textStyle (font-family, font-size, font-weight, fill,
\* text-anchor; the drop shadow when shadowEnabled, the stroke when
\* strokeEnabled, << >> when absent) and the text elements
svgMarkup(o, layout) ==
    IF layout = NoReturn THEN NoReturn
    ELSE [width |-> o.imageWidth,
          height |-> o.imageHeight,
          fontFamily |-> o.fontFamily,
          fontSize |-> layout.fontSize,
          fontWeight |-> o.fontWeight,
          fill |-> o.color,
          anchor |-> svgAnchor(o),
          shadow |-> IF o.shadowEnabled
                     THEN <<[offset |-> o.shadowOffset, blur |-> o.shadowBlur,
                             color |-> o.shadowColor]>>
                     ELSE <<>>,
          stroke |-> IF o.strokeEnabled
                     THEN <<[color |-> o.strokeColor, width |-> o.strokeWidth]>>
                     ELSE <<>>,
          lineHeight |-> layout.lineHeight,
          textElements |-> svgTextElements(layout.wrappedLines, svgX(o),
                               svgY(o, Len(layout.wrappedLines), layout.lineHeight),
                               layout.lineHeight)]

\* createTextSVG for options with the defaults applied
svgRender(str, o) == svgMarkup(o, svgLayout(str, o))

\* createTextSVG
createTextSVG(str, options) == svgRender(str, svgOptions(options))

----------------------------------------------------------------------------
(* JavaScript values of the request fields.  A string is a sequence of      *)
(* one-character strings.                                                  *)

Undefined == [type |-> "undefined"]
Str(chars) == [type |-> "string", s |-> chars]
Bool(b) == [type |-> "boolean", b |-> b]

\* the number n / 10^k, and the whole number n
Dec(n, k) == [type |-> "number", n |-> n, k |-> k]
Num(n) == Dec(n, 0)

\* const { field = default } = req.body
fieldOr(body, key, default) ==
    IF key \in DOMAIN body /\ body[key].type # "undefined" THEN body[key]
    ELSE default

\* !value for the values above
isFalsy(value) ==
    \/ value.type = "undefined"
    \/ value.type = "string" /\ value.s = <<>>
    \/ value.type = "boolean" /\ ~value.b
    \/ value.type = "number" /\ value.n = 0

\* whether chars holds the characters of literal from position k on
hasAt(chars, k, literal) ==
    /\ k + Len(literal) - 1 <= Len(chars)
    /\ SubSeq(chars, k, k + Len(literal) - 1) = literal

\* the letters of the classes [A-Z] and [a-z]
UpperLetters ==
    <<"A", "B", "C", "D", "E", "F", "G", "H", "I", "J", "K", "L", "M",
      "N", "O", "P", "Q", "R", "S", "T", "U", "V", "W", "X", "Y", "Z">>
LowerLetters ==
    <<"a", "b", "c", "d", "e", "f", "g", "h", "i", "j", "k", "l", "m",
      "n", "o", "p", "q", "r", "s", "t", "u", "v", "w", "x", "y", "z">>

isUpper(char) == \E k \in 1..26 : UpperLetters[k] = char
isLower(char) == \E k \in 1..26 : LowerLetters[k] = char

\* the printable characters of ASCII, U+0020 to U+007E, in their order; the
\* grave accent, which a string of this module cannot hold, by its name
PrintableAscii ==
    <<" ", "!", "\"", "#", "$", "%", "&", "'", "(", ")", "*", "+", ",", "-",
      ".", "/", "0", "1", "2", "3", "4", "5", "6", "7", "8", "9", ":", ";",
      "<", "=", ">", "?", "@", "A", "B", "C", "D", "E", "F", "G", "H", "I",
      "J", "K", "L", "M", "N", "O", "P", "Q", "R", "S", "T", "U", "V", "W",
      "X", "Y", "Z", "[", "\\", "]", "^", "_", "U+0060",
      "a", "b", "c", "d", "e",
      "f", "g", "h", "i", "j", "k", "l", "m", "n", "o", "p", "q", "r", "s",
      "t", "u", "v", "w", "x", "y", "z", "{", "|", "}", "~">>

\* the code unit n as a text holds it: a printable character of ASCII and
\* the four escapes as themselves, any other by its name
unitOf(n) ==
    IF n \in 32..126 THEN PrintableAscii[n - 31]
    ELSE IF n = 9 THEN "\t"
    ELSE IF n = 10 THEN "\n"
    ELSE IF n = 12 THEN "\f"
    ELSE IF n = 13 THEN "\r"
    ELSE unitName(n)

\* the capital letters of one code unit that toLowerCase changes, as
\* <<first, last, step, distance to the small letter>>, those of Unicode 17
LowerCaseRanges ==
    <<<<65, 90, 1, 32>>, <<192, 214, 1, 32>>, <<216, 222, 1, 32>>,
      <<256, 302, 2, 1>>, <<306, 310, 2, 1>>, <<313, 327, 2, 1>>,
      <<330, 374, 2, 1>>, <<376, 376, 1, -121>>, <<377, 381, 2, 1>>,
      <<385, 385, 1, 210>>, <<386, 388, 2, 1>>, <<390, 390, 1, 206>>,
      <<391, 391, 1, 1>>, <<393, 394, 1, 205>>, <<395, 395, 1, 1>>,
      <<398, 398, 1, 79>>, <<399, 399, 1, 202>>, <<400, 400, 1, 203>>,
      <<401, 401, 1, 1>>, <<403, 403, 1, 205>>, <<404, 404, 1, 207>>,
      <<406, 406, 1, 211>>, <<407, 407, 1, 209>>, <<408, 408, 1, 1>>,
      <<412, 412, 1, 211>>, <<413, 413, 1, 213>>, <<415, 415, 1, 214>>,
      <<416, 420, 2, 1>>, <<422, 422, 1, 218>>, <<423, 423, 1, 1>>,
      <<425, 425, 1, 218>>, <<428, 428, 1, 1>>, <<430, 430, 1, 218>>,
      <<431, 431, 1, 1>>, <<433, 434, 1, 217>>, <<435, 437, 2, 1>>,
      <<439, 439, 1, 219>>, <<440, 440, 1, 1>>, <<444, 444, 1, 1>>,
      <<452, 452, 1, 2>>, <<453, 453, 1, 1>>, <<455, 455, 1, 2>>,
      <<456, 456, 1, 1>>, <<458, 458, 1, 2>>, <<459, 475, 2, 1>>,
      <<478, 494, 2, 1>>, <<497, 497, 1, 2>>, <<498, 500, 2, 1>>,
      <<502, 502, 1, -97>>, <<503, 503, 1, -56>>, <<504, 542, 2, 1>>,
      <<544, 544, 1, -130>>, <<546, 562, 2, 1>>, <<570, 570, 1, 10795>>,
      <<571, 571, 1, 1>>, <<573, 573, 1, -163>>, <<574, 574, 1, 10792>>,
      <<577, 577, 1, 1>>, <<579, 579, 1, -195>>, <<580, 580, 1, 69>>,
      <<581, 581, 1, 71>>, <<582, 590, 2, 1>>, <<880, 882, 2, 1>>,
      <<886, 886, 1, 1>>, <<895, 895, 1, 116>>, <<902, 902, 1, 38>>,
      <<904, 906, 1, 37>>, <<908, 908, 1, 64>>, <<910, 911, 1, 63>>,
      <<913, 929, 1, 32>>, <<931, 939, 1, 32>>, <<975, 975, 1, 8>>,
      <<984, 1006, 2, 1>>, <<1012, 1012, 1, -60>>, <<1015, 1015, 1, 1>>,
      <<1017, 1017, 1, -7>>, <<1018, 1018, 1, 1>>, <<1021, 1023, 1, -130>>,
      <<1024, 1039, 1, 80>>, <<1040, 1071, 1, 32>>, <<1120, 1152, 2, 1>>,
      <<1162, 1214, 2, 1>>, <<1216, 1216, 1, 15>>, <<1217, 1229, 2, 1>>,
      <<1232, 1326, 2, 1>>, <<1329, 1366, 1, 48>>, <<4256, 4293, 1, 7264>>,
      <<4295, 4295, 1, 7264>>, <<4301, 4301, 1, 7264>>,
      <<5024, 5103, 1, 38864>>, <<5104, 5109, 1, 8>>, <<7305, 7305, 1, 1>>,
      <<7312, 7354, 1, -3008>>, <<7357, 7359, 1, -3008>>, <<7680, 7828, 2, 1>>,
      <<7838, 7838, 1, -7615>>, <<7840, 7934, 2, 1>>, <<7944, 7951, 1, -8>>,
      <<7960, 7965, 1, -8>>, <<7976, 7983, 1, -8>>, <<7992, 7999, 1, -8>>,
      <<8008, 8013, 1, -8>>, <<8025, 8031, 2, -8>>, <<8040, 8047, 1, -8>>,
      <<8072, 8079, 1, -8>>, <<8088, 8095, 1, -8>>, <<8104, 8111, 1, -8>>,
      <<8120, 8121, 1, -8>>, <<8122, 8123, 1, -74>>, <<8124, 8124, 1, -9>>,
      <<8136, 8139, 1, -86>>, <<8140, 8140, 1, -9>>, <<8152, 8153, 1, -8>>,
      <<8154, 8155, 1, -100>>, <<8168, 8169, 1, -8>>, <<8170, 8171, 1, -112>>,
      <<8172, 8172, 1, -7>>, <<8184, 8185, 1, -128>>, <<8186, 8187, 1, -126>>,
      <<8188, 8188, 1, -9>>, <<8486, 8486, 1, -7517>>,
      <<8490, 8490, 1, -8383>>, <<8491, 8491, 1, -8262>>,
      <<8498, 8498, 1, 28>>, <<8544, 8559, 1, 16>>, <<8579, 8579, 1, 1>>,
      <<9398, 9423, 1, 26>>, <<11264, 11311, 1, 48>>, <<11360, 11360, 1, 1>>,
      <<11362, 11362, 1, -10743>>, <<11363, 11363, 1, -3814>>,
      <<11364, 11364, 1, -10727>>, <<11367, 11371, 2, 1>>,
      <<11373, 11373, 1, -10780>>, <<11374, 11374, 1, -10749>>,
      <<11375, 11375, 1, -10783>>, <<11376, 11376, 1, -10782>>,
      <<11378, 11378, 1, 1>>, <<11381, 11381, 1, 1>>,
      <<11390, 11391, 1, -10815>>, <<11392, 11490, 2, 1>>,
      <<11499, 11501, 2, 1>>, <<11506, 11506, 1, 1>>, <<42560, 42604, 2, 1>>,
      <<42624, 42650, 2, 1>>, <<42786, 42798, 2, 1>>, <<42802, 42862, 2, 1>>,
      <<42873, 42875, 2, 1>>, <<42877, 42877, 1, -35332>>,
      <<42878, 42886, 2, 1>>, <<42891, 42891, 1, 1>>,
      <<42893, 42893, 1, -42280>>, <<42896, 42898, 2, 1>>,
      <<42902, 42920, 2, 1>>, <<42922, 42922, 1, -42308>>,
      <<42923, 42923, 1, -42319>>, <<42924, 42924, 1, -42315>>,
      <<42925, 42925, 1, -42305>>, <<42926, 42926, 1, -42308>>,
      <<42928, 42928, 1, -42258>>, <<42929, 42929, 1, -42282>>,
      <<42930, 42930, 1, -42261>>, <<42931, 42931, 1, 928>>,
      <<42932, 42946, 2, 1>>, <<42948, 42948, 1, -48>>,
      <<42949, 42949, 1, -42307>>, <<42950, 42950, 1, -35384>>,
      <<42951, 42953, 2, 1>>, <<42955, 42955, 1, -42343>>,
      <<42956, 42970, 2, 1>>, <<42972, 42972, 1, -42561>>,
      <<42997, 42997, 1, 1>>, <<65313, 65338, 1, 32>>>>

\* the capital letters outside the basic plane, as <<high surrogate, first
\* low surrogate, last low surrogate, distance to the small letter>>
LowerCasePairRanges ==
    <<<<55297, 56320, 56359, 40>>, <<55297, 56496, 56531, 40>>,
      <<55297, 56688, 56698, 39>>, <<55297, 56700, 56714, 39>>,
      <<55297, 56716, 56722, 39>>, <<55297, 56724, 56725, 39>>,
      <<55299, 56448, 56498, 64>>, <<55299, 56656, 56677, 32>>,
      <<55302, 56480, 56511, 32>>, <<55323, 56896, 56927, 32>>,
      <<55323, 56992, 57016, 27>>, <<55354, 56576, 56609, 34>>>>

\* the cased letters that are not case-ignorable, as <<first, last>>
CasedRanges ==
    <<<<65, 90>>, <<97, 122>>, <<170, 170>>, <<181, 181>>, <<186, 186>>,
      <<192, 214>>, <<216, 246>>, <<248, 442>>, <<444, 447>>, <<452, 659>>,
      <<662, 687>>, <<880, 883>>, <<886, 887>>, <<891, 893>>, <<895, 895>>,
      <<902, 902>>, <<904, 906>>, <<908, 908>>, <<910, 929>>, <<931, 1013>>,
      <<1015, 1153>>, <<1162, 1327>>, <<1329, 1366>>, <<1376, 1416>>,
      <<4256, 4293>>, <<4295, 4295>>, <<4301, 4301>>, <<4304, 4346>>,
      <<4349, 4351>>, <<5024, 5109>>, <<5112, 5117>>, <<7296, 7306>>,
      <<7312, 7354>>, <<7357, 7359>>, <<7424, 7467>>, <<7531, 7543>>,
      <<7545, 7578>>, <<7680, 7957>>, <<7960, 7965>>, <<7968, 8005>>,
      <<8008, 8013>>, <<8016, 8023>>, <<8025, 8025>>, <<8027, 8027>>,
      <<8029, 8029>>, <<8031, 8061>>, <<8064, 8116>>, <<8118, 8124>>,
      <<8126, 8126>>, <<8130, 8132>>, <<8134, 8140>>, <<8144, 8147>>,
      <<8150, 8155>>, <<8160, 8172>>, <<8178, 8180>>, <<8182, 8188>>,
      <<8450, 8450>>, <<8455, 8455>>, <<8458, 8467>>, <<8469, 8469>>,
      <<8473, 8477>>, <<8484, 8484>>, <<8486, 8486>>, <<8488, 8488>>,
      <<8490, 8493>>, <<8495, 8500>>, <<8505, 8505>>, <<8508, 8511>>,
      <<8517, 8521>>, <<8526, 8526>>, <<8544, 8575>>, <<8579, 8580>>,
      <<9398, 9449>>, <<11264, 11387>>, <<11390, 11492>>, <<11499, 11502>>,
      <<11506, 11507>>, <<11520, 11557>>, <<11559, 11559>>, <<11565, 11565>>,
      <<42560, 42605>>, <<42624, 42651>>, <<42786, 42863>>, <<42865, 42887>>,
      <<42891, 42894>>, <<42896, 42972>>, <<42997, 42998>>, <<43002, 43002>>,
      <<43824, 43866>>, <<43872, 43880>>, <<43888, 43967>>, <<64256, 64262>>,
      <<64275, 64279>>, <<65313, 65338>>, <<65345, 65370>>>>

\* those outside the basic plane, as <<high surrogate, first low surrogate,
\* last low surrogate>>
CasedPairRanges ==
    <<<<55297, 56320, 56399>>, <<55297, 56496, 56531>>,
      <<55297, 56536, 56571>>, <<55297, 56688, 56698>>,
      <<55297, 56700, 56714>>, <<55297, 56716, 56722>>,
      <<55297, 56724, 56725>>, <<55297, 56727, 56737>>,
      <<55297, 56739, 56753>>, <<55297, 56755, 56761>>,
      <<55297, 56763, 56764>>, <<55299, 56448, 56498>>,
      <<55299, 56512, 56562>>, <<55299, 56656, 56677>>,
      <<55299, 56688, 56709>>, <<55302, 56480, 56543>>,
      <<55323, 56896, 56959>>, <<55323, 56992, 57016>>,
      <<55323, 57019, 57043>>, <<55349, 56320, 56404>>,
      <<55349, 56406, 56476>>, <<55349, 56478, 56479>>,
      <<55349, 56482, 56482>>, <<55349, 56485, 56486>>,
      <<55349, 56489, 56492>>, <<55349, 56494, 56505>>,
      <<55349, 56507, 56507>>, <<55349, 56509, 56515>>,
      <<55349, 56517, 56581>>, <<55349, 56583, 56586>>,
      <<55349, 56589, 56596>>, <<55349, 56598, 56604>>,
      <<55349, 56606, 56633>>, <<55349, 56635, 56638>>,
      <<55349, 56640, 56644>>, <<55349, 56646, 56646>>,
      <<55349, 56650, 56656>>, <<55349, 56658, 56997>>,
      <<55349, 57000, 57024>>, <<55349, 57026, 57050>>,
      <<55349, 57052, 57082>>, <<55349, 57084, 57108>>,
      <<55349, 57110, 57140>>, <<55349, 57142, 57166>>,
      <<55349, 57168, 57198>>, <<55349, 57200, 57224>>,
      <<55349, 57226, 57256>>, <<55349, 57258, 57282>>,
      <<55349, 57284, 57291>>, <<55351, 57088, 57097>>,
      <<55351, 57099, 57118>>, <<55351, 57125, 57130>>,
      <<55354, 56576, 56643>>, <<55356, 56624, 56649>>,
      <<55356, 56656, 56681>>, <<55356, 56688, 56713>>>>

\* the case-ignorable characters, as <<first, last>>
CaseIgnorableRanges ==
    <<<<39, 39>>, <<46, 46>>, <<58, 58>>, <<94, 94>>, <<96, 96>>,
      <<168, 168>>, <<173, 173>>, <<175, 175>>, <<180, 180>>, <<183, 184>>,
      <<688, 879>>, <<884, 885>>, <<890, 890>>, <<900, 901>>, <<903, 903>>,
      <<1155, 1161>>, <<1369, 1369>>, <<1375, 1375>>, <<1425, 1469>>,
      <<1471, 1471>>, <<1473, 1474>>, <<1476, 1477>>, <<1479, 1479>>,
      <<1524, 1524>>, <<1536, 1541>>, <<1552, 1562>>, <<1564, 1564>>,
      <<1600, 1600>>, <<1611, 1631>>, <<1648, 1648>>, <<1750, 1757>>,
      <<1759, 1768>>, <<1770, 1773>>, <<1807, 1807>>, <<1809, 1809>>,
      <<1840, 1866>>, <<1958, 1968>>, <<2027, 2037>>, <<2042, 2042>>,
      <<2045, 2045>>, <<2070, 2093>>, <<2137, 2139>>, <<2184, 2184>>,
      <<2192, 2193>>, <<2199, 2207>>, <<2249, 2306>>, <<2362, 2362>>,
      <<2364, 2364>>, <<2369, 2376>>, <<2381, 2381>>, <<2385, 2391>>,
      <<2402, 2403>>, <<2417, 2417>>, <<2433, 2433>>, <<2492, 2492>>,
      <<2497, 2500>>, <<2509, 2509>>, <<2530, 2531>>, <<2558, 2558>>,
      <<2561, 2562>>, <<2620, 2620>>, <<2625, 2626>>, <<2631, 2632>>,
      <<2635, 2637>>, <<2641, 2641>>, <<2672, 2673>>, <<2677, 2677>>,
      <<2689, 2690>>, <<2748, 2748>>, <<2753, 2757>>, <<2759, 2760>>,
      <<2765, 2765>>, <<2786, 2787>>, <<2810, 2815>>, <<2817, 2817>>,
      <<2876, 2876>>, <<2879, 2879>>, <<2881, 2884>>, <<2893, 2893>>,
      <<2901, 2902>>, <<2914, 2915>>, <<2946, 2946>>, <<3008, 3008>>,
      <<3021, 3021>>, <<3072, 3072>>, <<3076, 3076>>, <<3132, 3132>>,
      <<3134, 3136>>, <<3142, 3144>>, <<3146, 3149>>, <<3157, 3158>>,
      <<3170, 3171>>, <<3201, 3201>>, <<3260, 3260>>, <<3263, 3263>>,
      <<3270, 3270>>, <<3276, 3277>>, <<3298, 3299>>, <<3328, 3329>>,
      <<3387, 3388>>, <<3393, 3396>>, <<3405, 3405>>, <<3426, 3427>>,
      <<3457, 3457>>, <<3530, 3530>>, <<3538, 3540>>, <<3542, 3542>>,
      <<3633, 3633>>, <<3636, 3642>>, <<3654, 3662>>, <<3761, 3761>>,
      <<3764, 3772>>, <<3782, 3782>>, <<3784, 3790>>, <<3864, 3865>>,
      <<3893, 3893>>, <<3895, 3895>>, <<3897, 3897>>, <<3953, 3966>>,
      <<3968, 3972>>, <<3974, 3975>>, <<3981, 3991>>, <<3993, 4028>>,
      <<4038, 4038>>, <<4141, 4144>>, <<4146, 4151>>, <<4153, 4154>>,
      <<4157, 4158>>, <<4184, 4185>>, <<4190, 4192>>, <<4209, 4212>>,
      <<4226, 4226>>, <<4229, 4230>>, <<4237, 4237>>, <<4253, 4253>>,
      <<4348, 4348>>, <<4957, 4959>>, <<5906, 5908>>, <<5938, 5939>>,
      <<5970, 5971>>, <<6002, 6003>>, <<6068, 6069>>, <<6071, 6077>>,
      <<6086, 6086>>, <<6089, 6099>>, <<6103, 6103>>, <<6109, 6109>>,
      <<6155, 6159>>, <<6211, 6211>>, <<6277, 6278>>, <<6313, 6313>>,
      <<6432, 6434>>, <<6439, 6440>>, <<6450, 6450>>, <<6457, 6459>>,
      <<6679, 6680>>, <<6683, 6683>>, <<6742, 6742>>, <<6744, 6750>>,
      <<6752, 6752>>, <<6754, 6754>>, <<6757, 6764>>, <<6771, 6780>>,
      <<6783, 6783>>, <<6823, 6823>>, <<6832, 6877>>, <<6880, 6891>>,
      <<6912, 6915>>, <<6964, 6964>>, <<6966, 6970>>, <<6972, 6972>>,
      <<6978, 6978>>, <<7019, 7027>>, <<7040, 7041>>, <<7074, 7077>>,
      <<7080, 7081>>, <<7083, 7085>>, <<7142, 7142>>, <<7144, 7145>>,
      <<7149, 7149>>, <<7151, 7153>>, <<7212, 7219>>, <<7222, 7223>>,
      <<7288, 7293>>, <<7376, 7378>>, <<7380, 7392>>, <<7394, 7400>>,
      <<7405, 7405>>, <<7412, 7412>>, <<7416, 7417>>, <<7468, 7530>>,
      <<7544, 7544>>, <<7579, 7679>>, <<8125, 8125>>, <<8127, 8129>>,
      <<8141, 8143>>, <<8157, 8159>>, <<8173, 8175>>, <<8189, 8190>>,
      <<8203, 8207>>, <<8216, 8217>>, <<8228, 8228>>, <<8231, 8231>>,
      <<8234, 8238>>, <<8288, 8292>>, <<8294, 8303>>, <<8305, 8305>>,
      <<8319, 8319>>, <<8336, 8348>>, <<8400, 8432>>, <<11388, 11389>>,
      <<11503, 11505>>, <<11631, 11631>>, <<11647, 11647>>, <<11744, 11775>>,
      <<11823, 11823>>, <<12293, 12293>>, <<12330, 12333>>, <<12337, 12341>>,
      <<12347, 12347>>, <<12441, 12446>>, <<12540, 12542>>, <<40981, 40981>>,
      <<42232, 42237>>, <<42508, 42508>>, <<42607, 42610>>, <<42612, 42621>>,
      <<42623, 42623>>, <<42652, 42655>>, <<42736, 42737>>, <<42752, 42785>>,
      <<42864, 42864>>, <<42888, 42890>>, <<42993, 42996>>, <<43000, 43001>>,
      <<43010, 43010>>, <<43014, 43014>>, <<43019, 43019>>, <<43045, 43046>>,
      <<43052, 43052>>, <<43204, 43205>>, <<43232, 43249>>, <<43263, 43263>>,
      <<43302, 43309>>, <<43335, 43345>>, <<43392, 43394>>, <<43443, 43443>>,
      <<43446, 43449>>, <<43452, 43453>>, <<43471, 43471>>, <<43493, 43494>>,
      <<43561, 43566>>, <<43569, 43570>>, <<43573, 43574>>, <<43587, 43587>>,
      <<43596, 43596>>, <<43632, 43632>>, <<43644, 43644>>, <<43696, 43696>>,
      <<43698, 43700>>, <<43703, 43704>>, <<43710, 43711>>, <<43713, 43713>>,
      <<43741, 43741>>, <<43756, 43757>>, <<43763, 43764>>, <<43766, 43766>>,
      <<43867, 43871>>, <<43881, 43883>>, <<44005, 44005>>, <<44008, 44008>>,
      <<44013, 44013>>, <<64286, 64286>>, <<64434, 64450>>, <<65024, 65039>>,
      <<65043, 65043>>, <<65056, 65071>>, <<65106, 65106>>, <<65109, 65109>>,
      <<65279, 65279>>, <<65287, 65287>>, <<65294, 65294>>, <<65306, 65306>>,
      <<65342, 65342>>, <<65344, 65344>>, <<65392, 65392>>, <<65438, 65439>>,
      <<65507, 65507>>, <<65529, 65531>>>>

\* those outside the basic plane
CaseIgnorablePairRanges ==
    <<<<55296, 56829, 56829>>, <<55296, 57056, 57056>>,
      <<55296, 57206, 57210>>, <<55297, 57216, 57221>>,
      <<55297, 57223, 57264>>, <<55297, 57266, 57274>>,
      <<55298, 56833, 56835>>, <<55298, 56837, 56838>>,
      <<55298, 56844, 56847>>, <<55298, 56888, 56890>>,
      <<55298, 56895, 56895>>, <<55298, 57061, 57062>>,
      <<55299, 56612, 56615>>, <<55299, 56654, 56654>>,
      <<55299, 56681, 56685>>, <<55299, 56687, 56687>>,
      <<55299, 57003, 57004>>, <<55299, 57029, 57029>>,
      <<55299, 57082, 57087>>, <<55299, 57158, 57168>>,
      <<55299, 57218, 57221>>, <<55300, 56321, 56321>>,
      <<55300, 56376, 56390>>, <<55300, 56432, 56432>>,
      <<55300, 56435, 56436>>, <<55300, 56447, 56449>>,
      <<55300, 56499, 56502>>, <<55300, 56505, 56506>>,
      <<55300, 56509, 56509>>, <<55300, 56514, 56514>>,
      <<55300, 56525, 56525>>, <<55300, 56576, 56578>>,
      <<55300, 56615, 56619>>, <<55300, 56621, 56628>>,
      <<55300, 56691, 56691>>, <<55300, 56704, 56705>>,
      <<55300, 56758, 56766>>, <<55300, 56777, 56780>>,
      <<55300, 56783, 56783>>, <<55300, 56879, 56881>>,
      <<55300, 56884, 56884>>, <<55300, 56886, 56887>>,
      <<55300, 56894, 56894>>, <<55300, 56897, 56897>>,
      <<55300, 57055, 57055>>, <<55300, 57059, 57066>>,
      <<55300, 57088, 57089>>, <<55300, 57147, 57148>>,
      <<55300, 57152, 57152>>, <<55300, 57190, 57196>>,
      <<55300, 57200, 57204>>, <<55300, 57275, 57280>>,
      <<55300, 57294, 57294>>, <<55300, 57296, 57296>>,
      <<55300, 57298, 57298>>, <<55300, 57313, 57314>>,
      <<55301, 56376, 56383>>, <<55301, 56386, 56388>>,
      <<55301, 56390, 56390>>, <<55301, 56414, 56414>>,
      <<55301, 56499, 56504>>, <<55301, 56506, 56506>>,
      <<55301, 56511, 56512>>, <<55301, 56514, 56515>>,
      <<55301, 56754, 56757>>, <<55301, 56764, 56765>>,
      <<55301, 56767, 56768>>, <<55301, 56796, 56797>>,
      <<55301, 56883, 56890>>, <<55301, 56893, 56893>>,
      <<55301, 56895, 56896>>, <<55301, 57003, 57003>>,
      <<55301, 57005, 57005>>, <<55301, 57008, 57013>>,
      <<55301, 57015, 57015>>, <<55301, 57117, 57117>>,
      <<55301, 57119, 57119>>, <<55301, 57122, 57125>>,
      <<55301, 57127, 57131>>, <<55302, 56367, 56375>>,
      <<55302, 56377, 56378>>, <<55302, 56635, 56636>>,
      <<55302, 56638, 56638>>, <<55302, 56643, 56643>>,
      <<55302, 56788, 56791>>, <<55302, 56794, 56795>>,
      <<55302, 56800, 56800>>, <<55302, 56833, 56842>>,
      <<55302, 56883, 56888>>, <<55302, 56891, 56894>>,
      <<55302, 56903, 56903>>, <<55302, 56913, 56918>>,
      <<55302, 56921, 56923>>, <<55302, 56970, 56982>>,
      <<55302, 56984, 56985>>, <<55302, 57184, 57184>>,
      <<55302, 57186, 57188>>, <<55302, 57190, 57190>>,
      <<55303, 56368, 56374>>, <<55303, 56376, 56381>>,
      <<55303, 56383, 56383>>, <<55303, 56466, 56487>>,
      <<55303, 56490, 56496>>, <<55303, 56498, 56499>>,
      <<55303, 56501, 56502>>, <<55303, 56625, 56630>>,
      <<55303, 56634, 56634>>, <<55303, 56636, 56637>>,
      <<55303, 56639, 56645>>, <<55303, 56647, 56647>>,
      <<55303, 56720, 56721>>, <<55303, 56725, 56725>>,
      <<55303, 56727, 56727>>, <<55303, 56793, 56793>>,
      <<55303, 57075, 57076>>, <<55303, 57088, 57089>>,
      <<55303, 57142, 57146>>, <<55303, 57152, 57152>>,
      <<55303, 57154, 57154>>, <<55303, 57178, 57178>>,
      <<55309, 56368, 56384>>, <<55309, 56391, 56405>>,
      <<55320, 56606, 56617>>, <<55320, 56621, 56623>>,
      <<55322, 57072, 57076>>, <<55322, 57136, 57142>>,
      <<55322, 57152, 57155>>, <<55323, 56640, 56642>>,
      <<55323, 56683, 56684>>, <<55323, 57167, 57167>>,
      <<55323, 57231, 57247>>, <<55323, 57312, 57313>>,
      <<55323, 57315, 57316>>, <<55323, 57330, 57331>>,
      <<55339, 57328, 57331>>, <<55339, 57333, 57339>>,
      <<55339, 57341, 57342>>, <<55343, 56477, 56478>>,
      <<55343, 56480, 56483>>, <<55347, 57088, 57133>>,
      <<55347, 57136, 57158>>, <<55348, 56679, 56681>>,
      <<55348, 56691, 56706>>, <<55348, 56709, 56715>>,
      <<55348, 56746, 56749>>, <<55348, 56898, 56900>>,
      <<55350, 56832, 56886>>, <<55350, 56891, 56940>>,
      <<55350, 56949, 56949>>, <<55350, 56964, 56964>>,
      <<55350, 56987, 56991>>, <<55350, 56993, 57007>>,
      <<55352, 56320, 56326>>, <<55352, 56328, 56344>>,
      <<55352, 56347, 56353>>, <<55352, 56355, 56356>>,
      <<55352, 56358, 56362>>, <<55352, 56368, 56429>>,
      <<55352, 56463, 56463>>, <<55352, 56624, 56637>>,
      <<55352, 57006, 57006>>, <<55352, 57068, 57071>>,
      <<55353, 56555, 56559>>, <<55353, 56814, 56815>>,
      <<55353, 57059, 57059>>, <<55353, 57062, 57062>>,
      <<55353, 57070, 57071>>, <<55353, 57077, 57077>>,
      <<55353, 57087, 57087>>, <<55354, 56528, 56534>>,
      <<55354, 56644, 56651>>, <<55356, 57339, 57343>>,
      <<56128, 56321, 56321>>, <<56128, 56352, 56447>>,
      <<56128, 56576, 56815>>>>

\* the characters of the ranges: one code unit each for ranges, a surrogate
\* pair each for pairRanges
charsOf(ranges, pairRanges) ==
    UNION {{<<unitOf(n)>> : n \in ranges[i][1]..ranges[i][2]} : i \in DOMAIN ranges}
    \cup UNION {{<<unitName(pairRanges[i][1]), unitName(n)>> :
                    n \in pairRanges[i][2]..pairRanges[i][3]} : i \in DOMAIN pairRanges}

CasedChars == charsOf(CasedRanges, CasedPairRanges)
CaseIgnorableChars == charsOf(CaseIgnorableRanges, CaseIgnorablePairRanges)

\* the lower-case mapping as pairs of a character and the code units it
\* becomes; U+0130 alone becomes two code units
LowerCaseMap ==
    UNION {{<< <<unitOf(n)>>, <<unitOf(n + LowerCaseRanges[i][4])>> >> :
               n \in {m \in LowerCaseRanges[i][1]..LowerCaseRanges[i][2] :
                         (m - LowerCaseRanges[i][1]) % LowerCaseRanges[i][3] = 0}} :
           i \in DOMAIN LowerCaseRanges}
    \cup UNION {{<< <<unitName(LowerCasePairRanges[i][1]), unitName(n)>>,
                    <<unitName(LowerCasePairRanges[i][1]),
                      unitName(n + LowerCasePairRanges[i][4])>> >> :
                    n \in LowerCasePairRanges[i][2]..LowerCasePairRanges[i][3]} :
                i \in DOMAIN LowerCasePairRanges}
    \cup {<< <<"U+0130">>, <<"i", "U+0307">> >>}

\* the character of chars that starts at position k: a surrogate pair, or
\* one code unit
charAt(chars, k) ==
    IF k < Len(chars) /\ isHighSurrogate(chars[k]) /\ isLowSurrogate(chars[k + 1])
    THEN <<chars[k], chars[k + 1]>>
    ELSE <<chars[k]>>

\* whether a cased letter comes before position k + 1 of chars, with only
\* case-ignorable characters in between
RECURSIVE casedBefore(_, _)
casedBefore(chars, k) ==
    IF k < 1 THEN FALSE
    ELSE LET char == IF isPairEnd(chars, k) THEN <<chars[k - 1], chars[k]>>
                     ELSE <<chars[k]>>
         IN  IF char \in CaseIgnorableChars
             THEN casedBefore(chars, k - Len(char))
             ELSE char \in CasedChars

\* whether a cased letter comes from position k of chars on, with only
\* case-ignorable characters before it
RECURSIVE casedAfter(_, _)
casedAfter(chars, k) ==
    IF k > Len(chars) THEN FALSE
    ELSE IF charAt(chars, k) \in CaseIgnorableChars
    THEN casedAfter(chars, k + Len(charAt(chars, k)))
    ELSE charAt(chars, k) \in CasedChars

\* the lower case of the character of chars at position k: a capital sigma
\* that ends a word is the final sigma, any other character follows the
\* mapping
lowerCaseAt(chars, k) ==
    LET char == charAt(chars, k)
    IN  IF char = <<"U+03A3">> /\ casedBefore(chars, k - 1) /\ ~casedAfter(chars, k + 1)
        THEN <<"U+03C2">>
        ELSE IF \E pair \in LowerCaseMap : pair[1] = char
        THEN (CHOOSE pair \in LowerCaseMap : pair[1] = char)[2]
        ELSE char

\* String.prototype.toLowerCase from position k on
RECURSIVE lowerCaseFrom(_, _)
lowerCaseFrom(chars, k) ==
    IF k > Len(chars) THEN <<>>
    ELSE lowerCaseAt(chars, k) \o lowerCaseFrom(chars, k + Len(charAt(chars, k)))

\* String.prototype.toLowerCase
toLowerCase(chars) == lowerCaseFrom(chars, 1)

Digits == <<"0", "1", "2", "3", "4", "5", "6", "7", "8", "9">>
isDigit(char) == \E k \in 1..10 : Digits[k] = char
digitValue(char) == (CHOOSE k \in 1..10 : Digits[k] = char) - 1

\* the value of the digits of chars from position k on, up to the first
\* character that is not a digit; acc is the value read so far
RECURSIVE readDigits(_, _, _)
readDigits(chars, k, acc) ==
    IF k > Len(chars) \/ ~isDigit(chars[k]) THEN acc
    ELSE readDigits(chars, k + 1, 10 * acc + digitValue(chars[k]))

\* the position after the digits of chars that start at position k
digitsEnd(chars, k) ==
    LET others == {j \in k..Len(chars) : ~isDigit(chars[j])}
    IN  IF others = {} THEN MathMax(k, Len(chars) + 1)
        ELSE CHOOSE j \in others : \A i \in others : j <= i

\* the position after the zeros of chars that start at position k
zerosEnd(chars, k) ==
    LET others == {j \in k..Len(chars) : chars[j] # "0"}
    IN  IF others = {} THEN MathMax(k, Len(chars) + 1)
        ELSE CHOOSE j \in others : \A i \in others : j <= i

\* the decimal digits of 2^1024 - 2^970: the whole numbers from this one on
\* are nearer to 2^1024 than to the largest double, and are read as Infinity
InfinityFrom ==
    <<"1", "7", "9", "7", "6", "9", "3", "1", "3", "4", "8", "6", "2", "3", "1", "5",
      "8", "0", "7", "9", "3", "7", "2", "8", "9", "7", "1", "4", "0", "5", "3", "0",
      "3", "4", "1", "5", "0", "7", "9", "9", "3", "4", "1", "3", "2", "7", "1", "0",
      "0", "3", "7", "8", "2", "6", "9", "3", "6", "1", "7", "3", "7", "7", "8", "9",
      "8", "0", "4", "4", "4", "9", "6", "8", "2", "9", "2", "7", "6", "4", "7", "5",
      "0", "9", "4", "6", "6", "4", "9", "0", "1", "7", "9", "7", "7", "5", "8", "7",
      "2", "0", "7", "0", "9", "6", "3", "3", "0", "2", "8", "6", "4", "1", "6", "6",
      "9", "2", "8", "8", "7", "9", "1", "0", "9", "4", "6", "5", "5", "5", "5", "4",
      "7", "8", "5", "1", "9", "4", "0", "4", "0", "2", "6", "3", "0", "6", "5", "7",
      "4", "8", "8", "6", "7", "1", "5", "0", "5", "8", "2", "0", "6", "8", "1", "9",
      "0", "8", "9", "0", "2", "0", "0", "0", "7", "0", "8", "3", "8", "3", "6", "7",
      "6", "2", "7", "3", "8", "5", "4", "8", "4", "5", "8", "1", "7", "7", "1", "1",
      "5", "3", "1", "7", "6", "4", "4", "7", "5", "7", "3", "0", "2", "7", "0", "0",
      "6", "9", "8", "5", "5", "5", "7", "1", "3", "6", "6", "9", "5", "9", "6", "2",
      "2", "8", "4", "2", "9", "1", "4", "8", "1", "9", "8", "6", "0", "8", "3", "4",
      "9", "3", "6", "4", "7", "5", "2", "9", "2", "7", "1", "9", "0", "7", "4", "1",
      "6", "8", "4", "4", "4", "3", "6", "5", "5", "1", "0", "7", "0", "4", "3", "4",
      "2", "7", "1", "1", "5", "5", "9", "6", "9", "9", "5", "0", "8", "0", "9", "3",
      "0", "4", "2", "8", "8", "0", "1", "7", "7", "9", "0", "4", "1", "7", "4", "4",
      "9", "7", "7", "9", "2">>

\* the k-th digit of the decimal fraction 0.d1 d2 ... of the digits given
digitAt(digits, k) == IF k <= Len(digits) THEN digitValue(digits[k]) ELSE 0

\* whether the decimal fraction 0.d1 d2 ... of the digits given is at least
\* the one of the digits of bound: it is above at the first digit that differs
reaches(digits, bound) ==
    LET differing == {k \in 1..Len(bound) : digitAt(digits, k) # digitValue(bound[k])}
    IN  \/ differing = {}
        \/ \E k \in differing :
               /\ \A j \in differing : k <= j
               /\ digitAt(digits, k) > digitValue(bound[k])

\* whether the number 0.d1 d2 ... * 10^scale of the digits given, the
\* first of them not 0, is read as Infinity
readAsInfinity(digits, scale) ==
    /\ digits # <<>>
    /\ \/ scale > Len(InfinityFrom)
       \/ scale = Len(InfinityFrom) /\ reaches(digits, InfinityFrom)

\* whether the decimal fraction 0.d1 d2 ... of the digits given is above the
\* one of the digits of bound
exceeds(digits, bound) ==
    LET differing == {k \in 1..MathMax(Len(digits), Len(bound)) :
                         digitAt(digits, k) # digitAt(bound, k)}
    IN  \E k \in differing :
            /\ \A j \in differing : k <= j
            /\ digitAt(digits, k) > digitAt(bound, k)

\* the decimal digits of 2^-1075 = 5^1075 / 10^1075, half the smallest
\* double: the numbers up to this one are nearer to 0 than to the smallest
\* double, this one is as near to both and goes to the even one, 0
ZeroUpTo ==
    <<"2", "4", "7", "0", "3", "2", "8", "2", "2", "9", "2", "0", "6", "2", "3", "2",
      "7", "2", "0", "8", "8", "2", "8", "4", "3", "9", "6", "4", "3", "4", "1", "1",
      "0", "6", "8", "6", "1", "8", "2", "5", "2", "9", "9", "0", "1", "3", "0", "7",
      "1", "6", "2", "3", "8", "2", "2", "1", "2", "7", "9", "2", "8", "4", "1", "2",
      "5", "0", "3", "3", "7", "7", "5", "3", "6", "3", "5", "1", "0", "4", "3", "7",
      "5", "9", "3", "2", "6", "4", "9", "9", "1", "8", "1", "8", "0", "8", "1", "7",
      "9", "9", "6", "1", "8", "9", "8", "9", "8", "2", "8", "2", "3", "4", "7", "7",
      "2", "2", "8", "5", "8", "8", "6", "5", "4", "6", "3", "3", "2", "8", "3", "5",
      "5", "1", "7", "7", "9", "6", "9", "8", "9", "8", "1", "9", "9", "3", "8", "7",
      "3", "9", "8", "0", "0", "5", "3", "9", "0", "9", "3", "9", "0", "6", "3", "1",
      "5", "0", "3", "5", "6", "5", "9", "5", "1", "5", "5", "7", "0", "2", "2", "6",
      "3", "9", "2", "2", "9", "0", "8", "5", "8", "3", "9", "2", "4", "4", "9", "1",
      "0", "5", "1", "8", "4", "4", "3", "5", "9", "3", "1", "8", "0", "2", "8", "4",
      "9", "9", "3", "6", "5", "3", "6", "1", "5", "2", "5", "0", "0", "3", "1", "9",
      "3", "7", "0", "4", "5", "7", "6", "7", "8", "2", "4", "9", "2", "1", "9", "3",
      "6", "5", "6", "2", "3", "6", "6", "9", "8", "6", "3", "6", "5", "8", "4", "8",
      "0", "7", "5", "7", "0", "0", "1", "5", "8", "5", "7", "6", "9", "2", "6", "9",
      "9", "0", "3", "7", "0", "6", "3", "1", "1", "9", "2", "8", "2", "7", "9", "5",
      "5", "8", "5", "5", "1", "3", "3", "2", "9", "2", "7", "8", "3", "4", "3", "3",
      "8", "4", "0", "9", "3", "5", "1", "9", "7", "8", "0", "1", "5", "5", "3", "1",
      "2", "4", "6", "5", "9", "7", "2", "6", "3", "5", "7", "9", "5", "7", "4", "6",
      "2", "2", "7", "6", "6", "4", "6", "5", "2", "7", "2", "8", "2", "7", "2", "2",
      "0", "0", "5", "6", "3", "7", "4", "0", "0", "6", "4", "8", "5", "4", "9", "9",
      "9", "7", "7", "0", "9", "6", "5", "9", "9", "4", "7", "0", "4", "5", "4", "0",
      "2", "0", "8", "2", "8", "1", "6", "6", "2", "2", "6", "2", "3", "7", "8", "5",
      "7", "3", "9", "3", "4", "5", "0", "7", "3", "6", "3", "3", "9", "0", "0", "7",
      "9", "6", "7", "7", "6", "1", "9", "3", "0", "5", "7", "7", "5", "0", "6", "7",
      "4", "0", "1", "7", "6", "3", "2", "4", "6", "7", "3", "6", "0", "0", "9", "6",
      "8", "9", "5", "1", "3", "4", "0", "5", "3", "5", "5", "3", "7", "4", "5", "8",
      "5", "1", "6", "6", "6", "1", "1", "3", "4", "2", "2", "3", "7", "6", "6", "6",
      "7", "8", "6", "0", "4", "1", "6", "2", "1", "5", "9", "6", "8", "0", "4", "6",
      "1", "9", "1", "4", "4", "6", "7", "2", "9", "1", "8", "4", "0", "3", "0", "0",
      "5", "3", "0", "0", "5", "7", "5", "3", "0", "8", "4", "9", "0", "4", "8", "7",
      "6", "5", "3", "9", "1", "7", "1", "1", "3", "8", "6", "5", "9", "1", "6", "4",
      "6", "2", "3", "9", "5", "2", "4", "9", "1", "2", "6", "2", "3", "6", "5", "3",
      "8", "8", "1", "8", "7", "9", "6", "3", "6", "2", "3", "9", "3", "7", "3", "2",
      "8", "0", "4", "2", "3", "8", "9", "1", "0", "1", "8", "6", "7", "2", "3", "4",
      "8", "4", "9", "7", "6", "6", "8", "2", "3", "5", "0", "8", "9", "8", "6", "3",
      "3", "8", "8", "5", "8", "7", "9", "2", "5", "6", "2", "8", "3", "0", "2", "7",
      "5", "5", "9", "9", "5", "6", "5", "7", "5", "2", "4", "4", "5", "5", "5", "0",
      "7", "2", "5", "5", "1", "8", "9", "3", "1", "3", "6", "9", "0", "8", "3", "6",
      "2", "5", "4", "7", "7", "9", "1", "8", "6", "9", "4", "8", "6", "6", "7", "9",
      "9", "4", "9", "6", "8", "3", "2", "4", "0", "4", "9", "7", "0", "5", "8", "2",
      "1", "0", "2", "8", "5", "1", "3", "1", "8", "5", "4", "5", "1", "3", "9", "6",
      "2", "1", "3", "8", "3", "7", "7", "2", "2", "8", "2", "6", "1", "4", "5", "4",
      "3", "7", "6", "9", "3", "4", "1", "2", "5", "3", "2", "0", "9", "8", "5", "9",
      "1", "3", "2", "7", "6", "6", "7", "2", "3", "6", "3", "2", "8", "1", "2", "5">>

\* the scale of 2^-1075 = 0.24703... * 10^-323
ZeroScale == -323

\* whether the number 0.d1 d2 ... * 10^scale of the digits given, the
\* first of them not 0, is read as 0
readAsZero(digits, scale) ==
    \/ scale < ZeroScale
    \/ scale = ZeroScale /\ ~exceeds(digits, ZeroUpTo)

\* the value of a hexadecimal digit, 16 for any other character
hexValue(char) ==
    IF \E k \in 1..16 : HexDigits[k] = char
    THEN (CHOOSE k \in 1..16 : HexDigits[k] = char) - 1
    ELSE IF \E k \in 1..6 : LowerLetters[k] = char
    THEN (CHOOSE k \in 1..6 : LowerLetters[k] = char) + 9
    ELSE 16

\* the value of the hexadecimal digits of chars from position k on
RECURSIVE readHexDigits(_, _, _)
readHexDigits(chars, k, acc) ==
    IF k > Len(chars) \/ hexValue(chars[k]) = 16 THEN acc
    ELSE readHexDigits(chars, k + 1, 16 * acc + hexValue(chars[k]))

\* the position after the hexadecimal digits of chars that start at position k
hexDigitsEnd(chars, k) ==
    LET others == {j \in k..Len(chars) : hexValue(chars[j]) = 16}
    IN  IF others = {} THEN MathMax(k, Len(chars) + 1)
        ELSE CHOOSE j \in others : \A i \in others : j <= i

\* whether the hexadecimal digits given, the first of them not 0, are read
\* as Infinity: a number of 2^1024 - 2^970 or more, which has more than 256
\* digits, or 256 with its 54 leading bits set
hexReadAsInfinity(digits) ==
    \/ Len(digits) > 256
    \/ /\ Len(digits) = 256
       /\ \A j \in 1..13 : hexValue(digits[j]) = 15
       /\ hexValue(digits[14]) >= 12

\* the position of the first character of chars that is not white space
RECURSIVE skipWhitespace(_, _)
skipWhitespace(chars, k) ==
    IF k <= Len(chars) /\ isWhitespace(chars[k]) THEN skipWhitespace(chars, k + 1)
    ELSE k

\* the first digit of the whole number n > 0
RECURSIVE leadingDigit(_)
leadingDigit(n) == IF n < 10 THEN n ELSE leadingDigit(n \div 10)

\* parseInt of a number: of the string the number is written as, which is
\* its digits down to one millionth, and d.ddde-7 below
parseIntOfNumber(n, k) ==
    LET magnitude == IF n < 0 THEN 0 - n ELSE n
        whole == IF magnitude # 0 /\ k > 6 /\ magnitude < Pow10(k - 6)
                 THEN leadingDigit(magnitude)
                 ELSE magnitude \div Pow10(k)
    IN  Whole(IF n < 0 THEN 0 - whole ELSE whole)

\* parseInt(value) without a radix: leading white space, a sign, then the
\* digits; after 0x or 0X the digits are hexadecimal; NaN when no digit is
\* there, and Infinity or -Infinity when the digits are a number beyond the
\* doubles
parseInt(value) ==
    IF value.type = "number" THEN parseIntOfNumber(value.n, value.k)
    ELSE IF value.type # "string" THEN NaN
    ELSE LET k == skipWhitespace(value.s, 1)
             signed == k <= Len(value.s) /\ value.s[k] \in {"-", "+"}
             sign == IF signed /\ value.s[k] = "-" THEN 0 - 1 ELSE 1
             d == IF signed THEN k + 1 ELSE k
             hex == hasAt(value.s, d, <<"0", "x">>) \/ hasAt(value.s, d, <<"0", "X">>)
             first == IF hex THEN d + 2 ELSE d
             found == /\ first <= Len(value.s)
                      /\ IF hex THEN hexValue(value.s[first]) < 16
                         ELSE isDigit(value.s[first])
             significant == zerosEnd(value.s, first)
             infinite ==
                 IF hex
                 THEN hexReadAsInfinity(SubSeq(value.s, significant,
                                               hexDigitsEnd(value.s, first) - 1))
                 ELSE readAsInfinity(SubSeq(value.s, significant,
                                            digitsEnd(value.s, first) - 1),
                                     digitsEnd(value.s, first) - significant)
             magnitude == IF hex THEN readHexDigits(value.s, significant, 0)
                          ELSE readDigits(value.s, significant, 0)
         IN  IF ~found THEN NaN
             ELSE IF infinite THEN Infinity(sign)
             ELSE Whole(sign * magnitude)

\* parsed || otherwise for a number parseInt returned
truthyOr(parsed, otherwise) ==
    IF parsed.nan \/ (parsed.inf = 0 /\ parsed.v = 0) THEN otherwise
    ELSE IF parsed.inf # 0 THEN InfiniteSize(parsed.inf)
    ELSE FontSize(100 * parsed.v)

\* parseInt(value) || otherwise, a number of 1/100 px: NaN and 0 are falsy,
\* Infinity and -Infinity are not
parseIntOr(value, otherwise) == truthyOr(parseInt(value), otherwise)

\* the number v / 10^k written with the fewest decimals, two at least
RECURSIVE normalFraction(_, _)
normalFraction(v, k) ==
    IF k < 2 THEN normalFraction(10 * v, k + 1)
    ELSE IF k > 2 /\ v % 10 = 0 THEN normalFraction(v \div 10, k - 1)
    ELSE Fraction(v, k)

\* parseFloat(value): leading white space, a sign, then Infinity or the
\* longest decimal literal (digits, a point and digits, an exponent when a
\* digit follows the e); NaN when there is neither, Infinity or -Infinity
\* when the literal is a number beyond the doubles
parseFloat(value) ==
    IF value.type = "number" THEN normalFraction(value.n, value.k)
    ELSE IF value.type # "string" THEN NaNFraction
    ELSE LET k == skipWhitespace(value.s, 1)
             signed == k <= Len(value.s) /\ value.s[k] \in {"-", "+"}
             sign == IF signed /\ value.s[k] = "-" THEN 0 - 1 ELSE 1
             d == IF signed THEN k + 1 ELSE k
             point == digitsEnd(value.s, d)
             hasPoint == point <= Len(value.s) /\ value.s[point] = "."
             mantissaEnd == IF hasPoint THEN digitsEnd(value.s, point + 1) ELSE point
             decimals == IF hasPoint THEN mantissaEnd - point - 1 ELSE 0
             mantissa == readDigits(value.s, d, 0) * Pow10(decimals)
                         + (IF hasPoint THEN readDigits(value.s, point + 1, 0) ELSE 0)
             allDigits == SubSeq(value.s, d, point - 1)
                          \o (IF hasPoint THEN SubSeq(value.s, point + 1, mantissaEnd - 1)
                              ELSE <<>>)
             significant == SubSeq(allDigits, zerosEnd(allDigits, 1), Len(allDigits))
             e == mantissaEnd <= Len(value.s) /\ value.s[mantissaEnd] \in {"e", "E"}
             eSigned == e /\ mantissaEnd < Len(value.s)
                        /\ value.s[mantissaEnd + 1] \in {"-", "+"}
             eDigits == mantissaEnd + (IF eSigned THEN 2 ELSE 1)
             exponent == IF e /\ digitsEnd(value.s, eDigits) > eDigits
                         THEN (IF eSigned /\ value.s[mantissaEnd + 1] = "-"
                               THEN 0 - 1 ELSE 1) * readDigits(value.s, eDigits, 0)
                         ELSE 0
         IN  IF hasAt(value.s, d, <<"I", "n", "f", "i", "n", "i", "t", "y">>)
             THEN InfiniteFraction(sign)
             ELSE IF point = d /\ decimals = 0 THEN NaNFraction
             ELSE IF readAsInfinity(significant,
                                    Len(significant) - decimals + exponent)
             THEN InfiniteFraction(sign)
             ELSE IF readAsZero(significant,
                                Len(significant) - decimals + exponent)
             THEN Fraction(0, 2)
             ELSE IF exponent >= decimals
             THEN normalFraction(sign * mantissa * Pow10(exponent - decimals), 0)
             ELSE normalFraction(sign * mantissa, decimals - exponent)

----------------------------------------------------------------------------
(* Output formats, src/server.js 38-80 and 369-390 *)

\* getSharpFormat(format, metadata), lines 38-68; metadata is << >> when
\* it is undefined, metadata.format is << >> when it is undefined
getSharpFormat(format, metadata) ==
    LET normalizedFormat == toLowerCase(format)
    IN  IF normalizedFormat \in {<<"j", "p", "g">>, <<"j", "p", "e", "g">>} THEN <<"j", "p", "e", "g">>
        ELSE IF normalizedFormat = <<"p", "n", "g">> THEN <<"p", "n", "g">>
        ELSE IF normalizedFormat = <<"w", "e", "b", "p">> THEN <<"w", "e", "b", "p">>
        ELSE IF normalizedFormat = <<"g", "i", "f">> THEN <<"g", "i", "f">>
        ELSE IF normalizedFormat \in {<<"t", "i", "f", "f">>, <<"t", "i", "f">>} THEN <<"t", "i", "f", "f">>
        ELSE IF normalizedFormat = <<"b", "m", "p">> THEN <<"p", "n", "g">>
        ELSE IF normalizedFormat = <<"a", "v", "i", "f">> THEN <<"a", "v", "i", "f">>
        ELSE IF normalizedFormat \in {<<"h", "e", "i", "f">>, <<"h", "e", "i", "c">>} THEN <<"h", "e", "i", "f">>
        ELSE IF metadata # <<>> /\ metadata.format # <<>> THEN metadata.format
        ELSE <<"p", "n", "g">>

\* detectImageFormat(buffer), lines 71-80: buffer is the sequence of the
\* bytes, a byte past its end is undefined; << >> for null
byteAt(buffer, k) == IF k < Len(buffer) THEN buffer[k + 1] ELSE 0 - 1

detectImageFormat(buffer) ==
    IF byteAt(buffer, 0) = 255 /\ byteAt(buffer, 1) = 216 THEN <<"j", "p", "e", "g">>
    ELSE IF byteAt(buffer, 0) = 137 /\ byteAt(buffer, 1) = 80
            /\ byteAt(buffer, 2) = 78 /\ byteAt(buffer, 3) = 71 THEN <<"p", "n", "g">>
    ELSE IF byteAt(buffer, 0) = 71 /\ byteAt(buffer, 1) = 73
            /\ byteAt(buffer, 2) = 70 THEN <<"g", "i", "f">>
    ELSE IF byteAt(buffer, 0) = 82 /\ byteAt(buffer, 1) = 73
            /\ byteAt(buffer, 2) = 70 /\ byteAt(buffer, 3) = 70 THEN <<"w", "e", "b", "p">>
    ELSE IF byteAt(buffer, 0) = 66 /\ byteAt(buffer, 1) = 77 THEN <<"b", "m", "p">>
    ELSE <<>>

\* the encoder applySharpFormat calls for a format name: the switch of
\* lines 372-389, png by default
encoderOf(sharpFormat) ==
    IF sharpFormat \in {<<"j", "p", "e", "g">>, <<"p", "n", "g">>, <<"w", "e", "b", "p">>, <<"g", "i", "f">>, <<"t", "i", "f", "f">>, <<"a", "v", "i", "f">>, <<"h", "e", "i", "f">>}
    THEN sharpFormat
    ELSE <<"p", "n", "g">>

\* applySharpFormat(sharpInstance, format, metadata), lines 369-390: the
\* encoder method it calls on the instance
applySharpFormat(format, metadata) == encoderOf(getSharpFormat(format, metadata))

----------------------------------------------------------------------------
(* POST /api/overlay and POST /api/overlay-base64, src/server.js 393-608 *)

\* the end of the run of letters of chars that starts at position k: the
\* position after its last letter; lowerOnly tells the class [a-z] from the
\* class [a-zA-Z]
RECURSIVE lettersEnd(_, _, _)
lettersEnd(chars, k, lowerOnly) ==
    IF k <= Len(chars) /\ (isLower(chars[k]) \/ (~lowerOnly /\ isUpper(chars[k])))
    THEN lettersEnd(chars, k + 1, lowerOnly)
    ELSE k

\* a match of /^data:image\/([a-zA-Z]+);base64,/ (line 528) or of
\* /^data:image\/[a-z]+;base64,/ (line 534) on chars: whether it matches,
\* the letters matched, and the position after the match
matchDataUri(chars, lowerOnly) ==
    LET head == <<"d", "a", "t", "a", ":", "i", "m", "a", "g", "e", "/">>
        tail == <<";", "b", "a", "s", "e", "6", "4", ",">>
        first == Len(head) + 1
        after == lettersEnd(chars, first, lowerOnly)
        matched == hasAt(chars, 1, head) /\ after > first /\ hasAt(chars, after, tail)
    IN  [matched |-> matched,
         letters |-> IF matched THEN SubSeq(chars, first, after - 1) ELSE <<>>,
         rest |-> IF matched THEN after + Len(tail) ELSE 1]

\* detectedFormat of lines 527-531, << >> for null
detectedFormat(imageBase64) == matchDataUri(imageBase64, FALSE).letters

\* base64Data of line 534
base64Data(imageBase64) ==
    SubSeq(imageBase64, matchDataUri(imageBase64, TRUE).rest, Len(imageBase64))

\* the base64 alphabet, the character of the value k at position k + 1
Base64Alphabet ==
    <<"A", "B", "C", "D", "E", "F", "G", "H", "I", "J", "K", "L", "M",
      "N", "O", "P", "Q", "R", "S", "T", "U", "V", "W", "X", "Y", "Z",
      "a", "b", "c", "d", "e", "f", "g", "h", "i", "j", "k", "l", "m",
      "n", "o", "p", "q", "r", "s", "t", "u", "v", "w", "x", "y", "z",
      "0", "1", "2", "3", "4", "5", "6", "7", "8", "9", "+", "/">>

\* the base64 text of bytes, which is what a client sends for an image: three
\* bytes give four characters, and "=" fills the last four
RECURSIVE base64Of(_)
base64Of(bytes) ==
    LET b1 == bytes[1]
        b2 == IF Len(bytes) > 1 THEN bytes[2] ELSE 0
        b3 == IF Len(bytes) > 2 THEN bytes[3] ELSE 0
        c1 == Base64Alphabet[(b1 \div 4) + 1]
        c2 == Base64Alphabet[((b1 % 4) * 16 + (b2 \div 16)) + 1]
        c3 == Base64Alphabet[((b2 % 16) * 4 + (b3 \div 64)) + 1]
        c4 == Base64Alphabet[(b3 % 64) + 1]
    IN  IF Len(bytes) = 0 THEN <<>>
        ELSE IF Len(bytes) = 1 THEN <<c1, c2, "=", "=">>
        ELSE IF Len(bytes) = 2 THEN <<c1, c2, c3, "=">>
        ELSE <<c1, c2, c3, c4>> \o base64Of(SubSeq(bytes, 4, Len(bytes)))

\* the code units of the characters the decoder tells from the others: the
\* letters, the digits, "+", "/", "-", "_" and "="
DecoderCodes == (65..90) \cup (97..122) \cup (48..57) \cup {43, 47, 45, 95, 61}

\* the code units above U+00FF that have the low byte n
LowByteUnits == [n \in DecoderCodes |-> {unitName(256 * h + n) : h \in 1..255}]

\* the character the decoder reads for a code unit: it reads the low byte of
\* the code unit alone, so that U+0141 is read as U+0041, "A"
lowByte(char) ==
    IF \E n \in DecoderCodes : char \in LowByteUnits[n]
    THEN unitOf(CHOOSE n \in DecoderCodes : char \in LowByteUnits[n])
    ELSE char

\* the value of a character the decoder accepts, of the base64 alphabet or
\* of its URL-safe variant, and 64 for any other character
base64Value(char) ==
    IF \E k \in 1..64 : Base64Alphabet[k] = char
    THEN (CHOOSE k \in 1..64 : Base64Alphabet[k] = char) - 1
    ELSE IF char = "-" THEN 62
    ELSE IF char = "_" THEN 63
    ELSE 64

\* the values of the characters of data the decoder reads, from position k
\* on: it passes over a character it does not accept and stops at "="
RECURSIVE base64Values(_, _)
base64Values(data, k) ==
    IF k > Len(data) \/ lowByte(data[k]) = "=" THEN <<>>
    ELSE IF base64Value(lowByte(data[k])) = 64 THEN base64Values(data, k + 1)
    ELSE <<base64Value(lowByte(data[k]))>> \o base64Values(data, k + 1)

\* the bytes of the values from position k on: four values give three bytes,
\* three values left give two, two give one and one gives none
RECURSIVE bytesOfValues(_, _)
bytesOfValues(values, k) ==
    LET left == Len(values) - k + 1
        byte1 == values[k] * 4 + (values[k + 1] \div 16)
        byte2 == (values[k + 1] % 16) * 16 + (values[k + 2] \div 4)
        byte3 == (values[k + 2] % 4) * 64 + values[k + 3]
    IN  IF left < 2 THEN <<>>
        ELSE IF left = 2 THEN <<byte1>>
        ELSE IF left = 3 THEN <<byte1, byte2>>
        ELSE <<byte1, byte2, byte3>> \o bytesOfValues(values, k + 4)

\* Buffer.from(base64Data, 'base64') (line 535)
bufferFromBase64(data) == bytesOfValues(base64Values(data, 1), 1)

\* autoResize !== 'false' && autoResize !== false (lines 448, 557)
notFalse(value) ==
    /\ ~(value.type = "string" /\ value.s = <<"f", "a", "l", "s", "e">>)
    /\ ~(value.type = "boolean" /\ ~value.b)

\* strokeEnabled === 'true' || strokeEnabled === true (lines 457, 566)
isTrue(value) ==
    \/ value.type = "string" /\ value.s = <<"t", "r", "u", "e">>
    \/ value.type = "boolean" /\ value.b

\* parseInt(fontSize) as a number of 1/100 px
fontSizeOf(value) ==
    IF parseInt(value).nan THEN NaNSize
    ELSE IF parseInt(value).inf # 0 THEN InfiniteSize(parseInt(value).inf)
    ELSE FontSize(100 * parseInt(value).v)

\* the values the handler destructures from req.body with the defaults of
\* lines 399-421 and 492-516, and the options it hands to createTextSVG,
\* lines 438-460 and 547-569: the numbers as parseInt and parseFloat read
\* them, NaN included; fontFamily, fontWeight, textAlign and the colours
\* are strings handed on as they are
svgOptionsOf(body, metadata) ==
    [fontSize |-> fontSizeOf(fieldOr(body, "fontSize", Num(32))),
     fontFamily |-> optionOr(body, "fontFamily", "Arial"),
     fontWeight |-> optionOr(body, "fontWeight", "normal"),
     color |-> optionOr(body, "color", "#ffffff"),
     textAlign |-> optionOr(body, "textAlign", "center"),
     positionX |-> parseInt(fieldOr(body, "positionX", Num(50))),
     positionY |-> parseInt(fieldOr(body, "positionY", Num(50))),
     imageWidth |-> metadata.width,
     imageHeight |-> metadata.height,
     autoResize |-> notFalse(fieldOr(body, "autoResize", Bool(TRUE))),
     maxFontSize |-> parseIntOr(fieldOr(body, "maxFontSize", Num(100)),
                                defaultMaxFontSize(metadata.width, metadata.height)),
     minFontSize |-> parseIntOr(fieldOr(body, "minFontSize", Num(12)),
                                defaultMinFontSize(metadata.width, metadata.height)),
     paddingPercent |-> parseInt(fieldOr(body, "paddingPercent", Num(10))),
     lineHeightMultiplier |-> parseFloat(fieldOr(body, "lineHeightMultiplier",
                                                 Dec(13, 1))),
     shadowEnabled |-> notFalse(fieldOr(body, "shadowEnabled", Bool(TRUE))),
     shadowColor |-> optionOr(body, "shadowColor", "rgba(0,0,0,0.7)"),
     shadowBlur |-> parseInt(fieldOr(body, "shadowBlur", Num(4))),
     shadowOffset |-> parseInt(fieldOr(body, "shadowOffset", Num(2))),
     strokeEnabled |-> isTrue(fieldOr(body, "strokeEnabled", Bool(FALSE))),
     strokeColor |-> optionOr(body, "strokeColor", "#000000"),
     strokeWidth |-> parseInt(fieldOr(body, "strokeWidth", Num(1)))]

\* allowedMimes of lines 23-27
allowedMimes ==
    {<<"i", "m", "a", "g", "e", "/", "j", "p", "e", "g">>,
     <<"i", "m", "a", "g", "e", "/", "j", "p", "g">>,
     <<"i", "m", "a", "g", "e", "/", "p", "n", "g">>,
     <<"i", "m", "a", "g", "e", "/", "g", "i", "f">>,
     <<"i", "m", "a", "g", "e", "/", "w", "e", "b", "p">>,
     <<"i", "m", "a", "g", "e", "/", "t", "i", "f", "f">>,
     <<"i", "m", "a", "g", "e", "/", "t", "i", "f">>,
     <<"i", "m", "a", "g", "e", "/", "b", "m", "p">>,
     <<"i", "m", "a", "g", "e", "/", "s", "v", "g", "+", "x", "m", "l">>,
     <<"i", "m", "a", "g", "e", "/", "h", "e", "i", "c">>,
     <<"i", "m", "a", "g", "e", "/", "h", "e", "i", "f">>,
     <<"i", "m", "a", "g", "e", "/", "a", "v", "i", "f">>}

\* fileFilter of lines 21-34: whether it accepts the file; otherwise it calls
\* back with the error 'Only image files are allowed'
fileFilter(file) ==
    \/ file.mimetype \in allowedMimes
    \/ hasAt(file.mimetype, 1, <<"i", "m", "a", "g", "e", "/">>)

\* limits.fileSize of line 20: the bytes of the largest file multer takes; a
\* longer one ends the upload with the error 'File too large'
fileSize == 10 * 1024 * 1024

\* limit of express.json, line 13: the bytes of the largest body it parses,
\* '50mb'; a longer one ends the request with the error 'request entity too
\* large', of status 413
jsonLimit == 50 * 1024 * 1024

\* the answer of express to an error no handler of server.js takes: the
\* status of the error, 500 when it has none, and a page of HTML
htmlError(status) == [status |-> status, body |-> "html"]

\* imageBuffer: req.file.buffer (line 428), or the decoded imageBase64 (lines
\* 534-535)
imageBufferOf(req) ==
    IF req.endpoint = "overlay" THEN req.file.buffer
    ELSE bufferFromBase64(base64Data(req.body.imageBase64.s))

\* finalFormat of lines 432-435 and 541-544
finalFormatOf(req, metadata, imageBuffer) ==
    LET outputFormat == fieldOr(req.body, "outputFormat", Str(<<"a", "u", "t", "o">>)).s
        detected == IF req.endpoint = "overlay" THEN <<>>
                    ELSE detectedFormat(req.body.imageBase64.s)
    IN  IF outputFormat # <<"a", "u", "t", "o">> THEN outputFormat
        ELSE IF detected # <<>> THEN detected
        ELSE IF metadata.format # <<>> THEN metadata.format
        ELSE IF detectImageFormat(imageBuffer) # <<>> THEN detectImageFormat(imageBuffer)
        ELSE <<"j", "p", "g">>

\* a response: res.status(status).json({ error, details }); details is << >>
\* when the body has none, and the message in a sequence otherwise
jsonError(status, error, details) ==
    [status |-> status, body |-> "json", error |-> error, details |-> details]

----------------------------------------------------------------------------
(* POST /api/upload_public, src/unnamed/part_000 50-59 *)

\* file.fieldname + '-' + uniqueSuffix + originalExtension with uniqueSuffix =
\* Date.now() + '-' + Math.round(Math.random() * 1E9): the parts of the name;
\* timestamp and random are written in digits between hyphens, so two
\* names are the same string exactly when their parts are the same
publicFilename(fieldname, timestamp, random, originalExtension) ==
    <<fieldname, timestamp, random, originalExtension>>

----------------------------------------------------------------------------
(* Inputs of the calls *)

\* a character of the plain class and one of the wide class, the hyphen
\* breakLongWord adds, and the two separators
Alphabet == {"a", "m", "-", " ", "\n"}

\* characters of every class of lines 107-112, two of each where the class
\* has two, for calls of estimateTextWidth alone
ClassAlphabet == {"i", "1", "t", "J", "r", "F", "m", "W", " ", ".", "|", "a", "-"}

StringsOver(chars, n) == UNION {[1..k -> chars] : k \in 0..n}

Texts == StringsOver(Alphabet, MaxLen)
Words == StringsOver(Alphabet \ {" ", "\n"}, MaxLen)
EstimateTexts == StringsOver(ClassAlphabet, MaxEstimateLen)

\* texts of characters outside the basic plane: U+1F600 after a letter, which
\* is two code units and one character, and its two code units in the other
\* order, which are two characters
EstimateScenarios ==
    {<<"a", "U+D83D", "U+DE00">>, <<"U+DE00", "U+D83D">>}

\* families of the table, a family the table lacks, and a family whose name
\* is a property of Object.prototype
Families == {"Arial", "Times New Roman", "Courier", "Verdana", "Futura", "constructor"}
Weights == {"normal", "bold", "600"}

\* font sizes in 1/100 px
Sizes == {800, 1250, 3200}

\* (fontSize in 1/100 px, maxWidth in 1/1000000 px, fontFamily, fontWeight)
\* of the wrapText and breakLongWord calls: 10px Arial in 0, 6, 12 and 20px,
\* 32px bold Verdana in 40px, and 10px of the inherited family in 12px
WrapCases ==
    {<<1000, 0, "Arial", "normal">>,
     <<1000, 6000000, "Arial", "normal">>,
     <<1000, 12000000, "Arial", "normal">>,
     <<1000, 20000000, "Arial", "normal">>,
     <<3200, 40000000, "Verdana", "bold">>,
     <<1000, 12000000, "constructor", "normal">>}

\* the scenario texts: two paragraphs around an empty one, and a word of 50
\* characters
LineOneLineThree ==
    <<"L", "i", "n", "e", " ", "o", "n", "e", "\n", "\n", "L", "i", "n", "e", " ", "t", "h", "r", "e", "e">>
FiftyCharWord == [k \in 1..50 |-> "a"]

\* texts whose estimated width is, in exact arithmetic, the maxWidth they are
\* wrapped in: three characters of 5.2px in 15.6px, two characters of 3.9px in
\* 7.8px, ten characters of 5.2px in 52px
ThreeAndOne == <<"a", "a", "a", " ", "a">>
ThreePairs == <<"a", "b", " ", "c", "d", " ", "e", "f">>
TenCharWord == [k \in 1..10 |-> "a"]
FourAndTen == <<"a", "a", "a", "a", " ">> \o TenCharWord

\* texts with white space outside ASCII: two words around a no-break space,
\* and a paragraph of an ideographic space and a thin space
NoBreakSpaced == <<"a", "U+00A0", "a">>
WideBlank == <<"U+3000", "U+2009", "\n", "a">>

\* U+1F600 twice: four code units
TwoFaces == <<"U+D83D", "U+DE00", "U+D83D", "U+DE00">>

\* breakLongWord is also called with a negative maxWidth
BreakCases == WrapCases \cup {<<1000, -1000000, "Arial", "normal">>}

\* the scenario calls, as (text, (fontSize, maxWidth, fontFamily, fontWeight)):
\* the three paragraphs at 32px in 720px, the long word at 32px in 100px, and
\* the texts above at 10px
WrapScenarios ==
    {<<LineOneLineThree, <<3200, 720000000, "Arial", "normal">> >>,
     <<ThreeAndOne, <<1000, 15600000, "Arial", "normal">> >>,
     <<ThreePairs, <<1000, 7800000, "Arial", "normal">> >>,
     <<FourAndTen, <<1000, 52000000, "Arial", "normal">> >>,
     <<NoBreakSpaced, <<1000, 12000000, "Arial", "normal">> >>,
     <<WideBlank, <<1000, 12000000, "Arial", "normal">> >>,
     <<TwoFaces, <<1000, 12000000, "Arial", "normal">> >>}
BreakScenarios ==
    {<<FiftyCharWord, <<3200, 100000000, "Arial", "normal">> >>,
     <<TenCharWord, <<1000, 52000000, "Arial", "normal">> >>,
     <<<<"a", "a", "a">>, <<1000, 15600000, "Arial", "normal">> >>,
     <<<<"m", "m">>, <<1000, 15600000, "Arial", "normal">> >>,
     <<TwoFaces, <<1000, 6000000, "Arial", "normal">> >>}

\* texts handed to calculateOptimalFontSize
SolveTexts ==
    {<<"a">>, <<"a", "a", " ", "a", "a">>, <<"a", "\n", "a", "\n", "a">>,
     <<"m", "m", "m", "m", "m">>}

\* font size bounds in 1/100 px: whole pixels from 12 to MaxFontPx
FontBounds == {100 * px : px \in 12..MaxFontPx}

\* (imageWidth, imageHeight) in px
ImageSizes == {<<40, 60>>, <<100, 60>>, <<60, 20>>, <<0, 60>>, <<40, 0>>}

PaddingPercents == {0, 10, 50, 60}
MaxLinesOptions == {2, 10}

\* five paragraphs of one character
FiveLines == <<"a", "\n", "a", "\n", "a", "\n", "a", "\n", "a">>

\* calls of calculateOptimalFontSize, as (text, (imageWidth, imageHeight),
\* minFontSize, maxFontSize, paddingPercent, maxLines), in which a probed
\* layout is, in exact arithmetic, as high as the box: five lines of
\* 14px * 1.3 in 91px, and five lines of 18px * 1.3 in 117px
SolveScenarios ==
    {<<FiveLines, <<40, 91>>, 1200, 1600, 0, 10>>,
     <<FiveLines, <<40, 117>>, 1600, 2000, 0, 10>>}

\* calls of calculateOptimalFontSize whose bounds, paddingPercent or
\* lineHeightMultiplier are other numbers the handlers can pass on (lines
\* 449-452 and 558-561: parseInt of a digit string beyond the doubles is
\* Infinity, parseFloat reads any decimal) or a caller can give: as (text,
\* (imageWidth, imageHeight), minFontSize, maxFontSize, paddingPercent,
\* lineHeightMultiplier, maxLines)
SolveSpecials ==
    {<<str, im, FontSize(1200), InfiniteSize(1), Whole(pp), Fraction(130, 2), 10>> :
        str \in {<<"a">>, <<"m", "m", "m", "m", "m">>},
        im \in {<<100, 60>>, <<60, 100>>, <<0, 60>>}, pp \in {10, 50}}
    \cup
    {<<<<"a">>, <<100, 60>>, bounds[1], bounds[2], pp, Fraction(130, 2), 10>> :
        bounds \in {<<InfiniteSize(-1), FontSize(1800)>>,
                    <<InfiniteSize(-1), InfiniteSize(1)>>,
                    <<InfiniteSize(1), InfiniteSize(1)>>,
                    <<NaNSize, FontSize(1800)>>,
                    <<FontSize(1200), NaNSize>>,
                    <<FontSize(1200), InfiniteSize(1)>>,
                    <<FontSize(-300), FontSize(300)>>},
        pp \in {Whole(10), NaN, Infinity(1), Infinity(-1)}}
    \cup
    {<<str, im, FontSize(1200), FontSize(hi), Whole(pp), mult, 10>> :
        str \in {<<"a">>, FiveLines}, im \in {<<100, 100>>, <<100, 60>>},
        hi \in {1800, 3000}, pp \in {10, 60},
        mult \in {Fraction(-100, 2), Fraction(-130, 2), Fraction(0, 2),
                  Fraction(150, 2), Fraction(1333, 3), NaNFraction,
                  InfiniteFraction(1), InfiniteFraction(-1)}}

\* the images sent: the first bytes, what the decoder reports as
\* metadata.format (<< >> when it reports none), and the size in px: a JPEG,
\* a PNG, an SVG, an image the decoder names no format for that starts as a
\* GIF, and one that starts as nothing known
Images ==
    {[bytes |-> <<255, 216, 255, 224>>, format |-> <<"j", "p", "e", "g">>, width |-> 800, height |-> 600],
     [bytes |-> <<137, 80, 78, 71>>, format |-> <<"p", "n", "g">>, width |-> 625, height |-> 700],
     [bytes |-> <<60, 115, 118, 103>>, format |-> <<"s", "v", "g">>, width |-> 100, height |-> 60],
     [bytes |-> <<71, 73, 70, 56>>, format |-> <<>>, width |-> 100, height |-> 60],
     [bytes |-> <<0, 0, 0, 0>>, format |-> <<>>, width |-> 100, height |-> 60]}

\* the codec step that fails for a request, "none" when none does
FailingSteps == {"none", "metadata", "composite", "encode"}

\* what the codec does with the image of a request: the image, the step
\* that fails and the message of its error
Sources ==
    {[bytes |-> im.bytes, format |-> im.format, width |-> im.width,
      height |-> im.height, failAt |-> step,
      message |-> IF step = "none" THEN "" ELSE "codec failed"] :
        im \in Images, step \in FailingSteps}

\* texts of the requests: eleven paragraphs, which fit no box in 10 lines
ElevenLines == [k \in 1..21 |-> IF k % 2 = 1 THEN "a" ELSE "\n"]
HelloWorld == <<"H", "e", "l", "l", "o", " ", "W", "o", "r", "l", "d">>

\* the text field of a request: present, empty, or absent
TextFields ==
    {[text |-> Str(<<"H", "i">>)], [text |-> Str(ElevenLines)], [text |-> Str(<<>>)], << >>}

\* the maxFontSize and minFontSize fields: absent, a number of px, 0, or not
\* a number
MaxFontFields ==
    {<< >>, [maxFontSize |-> Str(<<"4", "0">>)], [maxFontSize |-> Num(18)],
     [maxFontSize |-> Str(<<"0">>)], [maxFontSize |-> Str(<<"a", "b", "c">>)]}
MinFontFields ==
    {<< >>, [minFontSize |-> Str(<<"1", "4">>)], [minFontSize |-> Str(<<"0">>)],
     [minFontSize |-> Str(<<>>)]}
AutoResizeFields ==
    {<< >>, [autoResize |-> Str(<<"f", "a", "l", "s", "e">>)], [autoResize |-> Bool(FALSE)],
     [autoResize |-> Str(<<"t", "r", "u", "e">>)]}

\* the outputFormat field: absent, auto, recognized names, and names that
\* are not recognized
OutputFormatFields ==
    {<< >>, [outputFormat |-> Str(<<"a", "u", "t", "o">>)], [outputFormat |-> Str(<<"p", "n", "g">>)],
     [outputFormat |-> Str(<<"J", "P", "G">>)], [outputFormat |-> Str(<<"U+212A", "U+0130", "U+03A3">>)], [outputFormat |-> Str(<<"b", "m", "p">>)],
     [outputFormat |-> Str(<<"x", "y", "z">>)], [outputFormat |-> Str(<<"w", "e", "b", "p">>)]}
ReturnBase64Fields == {<< >>, [returnBase64 |-> Bool(TRUE)]}

\* what comes before the base64 text in imageBase64: nothing, or a data-URI
\* prefix naming a media type
DataUriPrefixes ==
    {<<>>, <<"d", "a", "t", "a", ":", "i", "m", "a", "g", "e", "/", "p", "n", "g", ";", "b", "a", "s", "e", "6", "4", ",">>, <<"d", "a", "t", "a", ":", "i", "m", "a", "g", "e", "/", "j", "p", "e", "g", ";", "b", "a", "s", "e", "6", "4", ",">>,
     <<"d", "a", "t", "a", ":", "i", "m", "a", "g", "e", "/", "J", "P", "E", "G", ";", "b", "a", "s", "e", "6", "4", ",">>}

\* the bodies of the requests: the layout fields varied with the format
\* fields absent, and the format fields varied with the layout fields absent
LayoutBodies ==
    {t @@ mx @@ mn @@ ar :
        t \in TextFields, mx \in MaxFontFields, mn \in MinFontFields,
        ar \in AutoResizeFields}
FormatBodies ==
    {[text |-> Str(<<"H", "i">>)] @@ f @@ rb :
        f \in OutputFormatFields, rb \in ReturnBase64Fields}

\* fields that are read as numbers: not a number, empty, hexadecimal, with
\* decimals, Infinity, below half the smallest double; and the fields of
\* the colour, the shadow and the stroke
NotResized == [autoResize |-> Str(<<"f", "a", "l", "s", "e">>)]
NumberFields ==
    {[paddingPercent |-> Str(<<"a", "b", "c">>)],
     [paddingPercent |-> Str(<<"a", "b", "c">>), textAlign |-> "left"],
     [paddingPercent |-> Str(<<"2", "0">>), textAlign |-> "right"],
     [fontSize |-> Str(<<"a", "b", "c">>)] @@ NotResized,
     [fontSize |-> Str(<<>>)] @@ NotResized,
     [fontSize |-> Str(<<"0", "x", "1", "0">>)] @@ NotResized,
     [fontSize |-> Str(<<" ", "2", "4", "p", "x">>)] @@ NotResized,
     [positionY |-> Str(<<"t", "o", "p">>)],
     [positionY |-> Str(<<"8", "0">>)],
     [positionY |-> Str(<<"1", "0">>)],
     [positionX |-> Str(<<"0", "x", "1", "0">>)],
     [positionX |-> Str(<<"-", "0", "X", "1", "f">>)],
     [positionX |-> Str(<<"a", "b", "c">>)],
     [lineHeightMultiplier |-> Str(<<"1", ".", "5">>)],
     [lineHeightMultiplier |-> Str(<<"1", ".", "1", "2", "5">>)] @@ NotResized,
     [lineHeightMultiplier |-> Str(<<"1", "5", "e", "-", "1">>)],
     [lineHeightMultiplier |-> Str(<<"a", "b", "c">>)],
     [lineHeightMultiplier |-> Str(<<"1", "e", "-", "3", "2", "4">>)],
     [lineHeightMultiplier |-> Str(<<"I", "n", "f", "i", "n", "i", "t", "y">>)],
     [lineHeightMultiplier |-> Str(<<"I", "n", "f", "i", "n", "i", "t", "y">>),
      positionY |-> Str(<<"1", "0">>)] @@ NotResized,
     [lineHeightMultiplier |-> Dec(15, 1)],
     [maxFontSize |-> Str(<<"0", "x", "1", "0">>)],
     [maxFontSize |-> Str([k \in 1..310 |-> "9"])],
     [maxFontSize |-> Str([k \in 1..310 |-> "9"]),
      paddingPercent |-> Str(<<"5", "0">>)],
     [maxFontSize |-> Str([k \in 1..310 |-> "9"])] @@ NotResized,
     [lineHeightMultiplier |-> Str(<<"-", "1", ".", "3">>),
      paddingPercent |-> Str(<<"6", "0">>)],
     [color |-> "red", shadowEnabled |-> Str(<<"f", "a", "l", "s", "e">>),
      strokeEnabled |-> Str(<<"t", "r", "u", "e">>),
      strokeColor |-> "blue", strokeWidth |-> Str(<<"2">>)],
     [shadowBlur |-> Str(<<"x">>), shadowOffset |-> Str(<<"3">>),
      shadowColor |-> "black"]}

\* texts with the characters the markup escapes
EscapedTexts ==
    {<<"a", "&", "b">>, <<"<", "b", ">">>, <<"\"", "&", "a", "m", "p", ";", "'">>}

NumberBodies ==
    {[text |-> Str(<<"H", "i">>)] @@ f : f \in NumberFields}
    \cup {[text |-> Str(str)] : str \in EscapedTexts}
Bodies == LayoutBodies \cup FormatBodies \cup NumberBodies

\* the media types a client names for the file it sends: two of the list,
\* one that only starts with image/, and four that the filter turns down
Mimetypes ==
    {<<"i", "m", "a", "g", "e", "/", "p", "n", "g">>,
     <<"i", "m", "a", "g", "e", "/", "j", "p", "e", "g">>,
     <<"i", "m", "a", "g", "e", "/", "x", "-", "i", "c", "o", "n">>,
     <<"t", "e", "x", "t", "/", "p", "l", "a", "i", "n">>,
     <<"a", "p", "p", "l", "i", "c", "a", "t", "i", "o", "n", "/", "p", "d", "f">>,
     <<"I", "m", "a", "g", "e", "/", "p", "n", "g">>,
     <<>>}

\* the base64 text with its first character replaced by the code unit 256
\* above it, which has the same low byte
aboveLatin1(data) ==
    [data EXCEPT ![1] = unitName(256 + (CHOOSE n \in DecoderCodes : unitOf(n) = data[1]))]

\* the requests for an image: to /api/overlay with the file or without it,
\* the file under each of the media types for the bodies that vary the
\* format and under image/png for every body, and a file of 10 MB and one a
\* byte longer; to /api/overlay-base64 with imageBase64 absent, empty, or
\* the base64 text of the image after one of the prefixes, or with a
\* character above U+00FF, and a body of 50 MB and one a byte longer.  size
\* is the length of the file and contentLength the one of the JSON body
RequestsFor(bytes) ==
    {[endpoint |-> "overlay", file |-> f, body |-> b] :
        f \in {<<>>, [buffer |-> bytes,
                      mimetype |-> <<"i", "m", "a", "g", "e", "/", "p", "n", "g">>,
                      size |-> 1024]},
        b \in Bodies}
    \cup
    {[endpoint |-> "overlay",
      file |-> [buffer |-> bytes, mimetype |-> m, size |-> 1024], body |-> b] :
        m \in Mimetypes, b \in FormatBodies \cup {<< >>}}
    \cup
    {[endpoint |-> "overlay",
      file |-> [buffer |-> bytes, mimetype |-> m, size |-> s], body |-> b] :
        m \in {<<"i", "m", "a", "g", "e", "/", "p", "n", "g">>,
               <<"t", "e", "x", "t", "/", "p", "l", "a", "i", "n">>},
        s \in {fileSize, fileSize + 1},
        b \in {<< >>, [text |-> Str(<<"H", "i">>)]}}
    \cup
    {[endpoint |-> "overlay-base64", file |-> <<>>, body |-> i @@ b,
      contentLength |-> 1024] :
        i \in {<< >>, [imageBase64 |-> Str(<<>>)]}
              \cup {[imageBase64 |-> Str(pre \o base64Of(bytes))] :
                        pre \in DataUriPrefixes},
        b \in Bodies}
    \cup
    {[endpoint |-> "overlay-base64", file |-> <<>>,
      body |-> [imageBase64 |-> Str(aboveLatin1(base64Of(bytes)))] @@ b,
      contentLength |-> 1024] :
        b \in FormatBodies}
    \cup
    {[endpoint |-> "overlay-base64", file |-> <<>>, body |-> b,
      contentLength |-> n] :
        n \in {jsonLimit, jsonLimit + 1},
        b \in {<< >>, [imageBase64 |-> Str(base64Of(bytes)),
                       text |-> Str(<<"H", "i">>)]}}

\* the options of the calls of createTextSVG: the defaults, and a target
\* position, an alignment, a padding and a box chosen
PositionYs == {0, 10, 24, 25, 26, 50, 74, 75, 76, 100}
TextAligns == {"left", "center", "right"}
SvgBoxes == {<<800, 600>>, <<625, 700>>, <<100, 60>>}
SvgTexts == {HelloWorld, <<"H", "i">>, <<"a", "\n", "a", "\n", "a">>, ElevenLines}

SvgOptionSets ==
    {<< >>, [autoResize |-> FALSE], [maxFontSize |-> InfiniteSize(1)]}
    \cup
    {[positionY |-> Whole(py), textAlign |-> ta, paddingPercent |-> Whole(pp),
      imageWidth |-> im[1], imageHeight |-> im[2], autoResize |-> ar] :
        py \in PositionYs, ta \in TextAligns, pp \in {0, 10},
        im \in SvgBoxes, ar \in BOOLEAN}

\* the options of the calls of calculateOptimalFontSize: none, so that the
\* bounds come from the box, or whole-pixel bounds
SolverOptionSets ==
    {<< >>, [maxLines |-> 2], [maxFontSize |-> InfiniteSize(1)],
     [minFontSize |-> NaNSize]}
    \cup
    {[minFontSize |-> FontSize(lo), maxFontSize |-> FontSize(hi)] :
        lo \in {1200, 1400}, hi \in {1300, 4000, 10000}}

----------------------------------------------------------------------------
(* The calls *)

Init ==
    /\ pc = "idle"
    /\ text = <<>>
    /\ maxWidth = 0
    /\ fontSize = 0
    /\ fontFamily = "Arial"
    /\ fontWeight = "normal"
    /\ result = <<>>
    /\ box = <<>>
    /\ low = FontSize(0)
    /\ high = FontSize(0)
    /\ bestResult = <<>>
    /\ probes = <<>>
    /\ request = <<>>
    /\ source = <<>>
    /\ calls = <<>>
    /\ responses = <<>>
    /\ files = <<>>
    /\ now = 0

\* a call of estimateTextWidth(text, fontSize, fontFamily, fontWeight)
EstimateTextWidth ==
    /\ pc = "idle"
    /\ \E str \in EstimateTexts \cup EstimateScenarios, size \in Sizes,
          family \in Families, weight \in Weights :
        /\ text' = str
        /\ fontSize' = size
        /\ fontFamily' = family
        /\ fontWeight' = weight
        /\ result' = estimateTextWidth(str, FontSize(size), family, weight)
    /\ pc' = "estimateTextWidth"
    /\ UNCHANGED <<maxWidth, box, low, high, bestResult, probes>>
    /\ UNCHANGED serverVars

\* the arguments and the return value of one call of wrapText
wrapTextCall(str, c) ==
    /\ text' = str
    /\ fontSize' = c[1]
    /\ maxWidth' = c[2]
    /\ fontFamily' = c[3]
    /\ fontWeight' = c[4]
    /\ result' = wrapText(str, Width(c[2]), FontSize(c[1]), c[3], c[4])

\* the arguments and the return value of one call of breakLongWord
breakLongWordCall(word, c) ==
    /\ text' = word
    /\ fontSize' = c[1]
    /\ maxWidth' = c[2]
    /\ fontFamily' = c[3]
    /\ fontWeight' = c[4]
    /\ result' = breakLongWord(word, Width(c[2]), FontSize(c[1]), c[3], c[4])

\* a call of wrapText(text, maxWidth, fontSize, fontFamily, fontWeight)
WrapText ==
    /\ pc = "idle"
    /\ \/ \E str \in Texts, c \in WrapCases : wrapTextCall(str, c)
       \/ \E call \in WrapScenarios : wrapTextCall(call[1], call[2])
    /\ pc' = "wrapText"
    /\ UNCHANGED <<box, low, high, bestResult, probes>>
    /\ UNCHANGED serverVars

\* a second call of wrapText, on one of the lines the first call returned,
\* with the same maxWidth and font
WrapAgain ==
    /\ pc = "wrapText"
    /\ \E k \in 1..Len(result) :
        /\ text' = result[k]
        /\ result' = wrapText(result[k], Width(maxWidth), FontSize(fontSize),
                           fontFamily, fontWeight)
    /\ pc' = "wrapAgain"
    /\ UNCHANGED <<maxWidth, fontSize, fontFamily, fontWeight, box, low, high,
                   bestResult, probes>>
    /\ UNCHANGED serverVars

\* a call of breakLongWord(word, maxWidth, fontSize, fontFamily, fontWeight)
BreakLongWord ==
    /\ pc = "idle"
    /\ \/ \E word \in Words, c \in BreakCases : breakLongWordCall(word, c)
       \/ \E call \in BreakScenarios : breakLongWordCall(call[1], call[2])
    /\ pc' = "breakLongWord"
    /\ UNCHANGED <<box, low, high, bestResult, probes>>
    /\ UNCHANGED serverVars

\* calculateOptimalFontSize(text, imageWidth, imageHeight, options) up to
\* the loop: lines 212-230
solveStartCall(str, im, lo, hi, pp, mult, ml) ==
    /\ text' = str
    /\ box' = [imageWidth |-> im[1], imageHeight |-> im[2],
               minFontSize |-> lo, maxFontSize |-> hi,
               fontFamily |-> "Arial", fontWeight |-> "normal",
               paddingPercent |-> pp,
               lineHeightMultiplier |-> mult,
               maxLines |-> ml]
    /\ low' = lo
    /\ high' = hi

SolveStart ==
    /\ pc = "idle"
    /\ \/ \E str \in SolveTexts, im \in ImageSizes, lo \in FontBounds,
             hi \in FontBounds, pp \in PaddingPercents, ml \in MaxLinesOptions :
            solveStartCall(str, im, FontSize(lo), FontSize(hi), Whole(pp),
                           Fraction(130, 2), ml)
       \/ \E call \in SolveScenarios :
            solveStartCall(call[1], call[2], FontSize(call[3]), FontSize(call[4]),
                           Whole(call[5]), Fraction(130, 2), call[6])
       \/ \E call \in SolveSpecials :
            solveStartCall(call[1], call[2], call[3], call[4], call[5], call[6],
                           call[7])
    /\ fontFamily' = "Arial"
    /\ fontWeight' = "normal"
    /\ bestResult' = <<>>
    /\ probes' = <<>>
    /\ pc' = "search"
    /\ UNCHANGED <<maxWidth, fontSize, result>>
    /\ UNCHANGED serverVars

\* one iteration of the loop, lines 232-244; the iterations recorded in
\* probes are followed up to MaxProbes
SolveProbe ==
    /\ pc = "search"
    /\ Len(probes) < MaxProbes
    /\ searching(low, high)
    /\ LET layout == layoutAt(text, box, probeSize(low, high))
       IN  /\ fontSize' = layout.fontSize
           /\ probes' = Append(probes, [fontSize |-> layout.fontSize,
                                        fits |-> fits(layout, box),
                                        low |-> low, high |-> high])
           /\ IF fits(layout, box)
              THEN /\ bestResult' = <<layout>>
                   /\ low' = sizeOf(layout.fontSize)
                   /\ high' = high
              ELSE /\ bestResult' = bestResult
                   /\ low' = low
                   /\ high' = oneLess(layout.fontSize)
    /\ UNCHANGED <<pc, text, maxWidth, fontFamily, fontWeight, result, box>>
    /\ UNCHANGED serverVars

\* the loop has ended: lines 246-254
SolveReturn ==
    /\ pc = "search"
    /\ ~searching(low, high)
    /\ result' = IF bestResult = <<>> THEN fallback(text, box) ELSE bestResult[1]
    /\ pc' = "solved"
    /\ UNCHANGED <<text, maxWidth, fontSize, fontFamily, fontWeight, box, low, high,
                   bestResult, probes>>
    /\ UNCHANGED serverVars

\* the layout variables a request handler leaves alone
layoutVars == <<maxWidth, fontSize, fontFamily, fontWeight, box, low, high,
                bestResult, probes>>

\* whether the request has its image: req.file (line 395), imageBase64 (line
\* 518)
hasImage(req) ==
    IF req.endpoint = "overlay" THEN req.file # <<>>
    ELSE ~isFalsy(fieldOr(req.body, "imageBase64", Undefined))

\* text of lines 400 and 494: the field, '' when it is unset
textOf(req) == fieldOr(req.body, "text", Str(<<>>))

\* the two checks of lines 395-397 and 423-425, or 518-524, in their order:
\* the error of the first one that fails, "" when both pass
validationError(req) ==
    IF ~hasImage(req)
    THEN IF req.endpoint = "overlay" THEN "No image file provided"
         ELSE "imageBase64 is required"
    ELSE IF isFalsy(textOf(req))
    THEN IF req.endpoint = "overlay" THEN "Text is required" ELSE "text is required"
    ELSE ""

\* whether the middleware hands the request on to its handler:
\* upload.single('image') of line 393 does not when fileFilter turns the
\* file down or the file is longer than limits.fileSize, express.json of
\* line 13 does not when the body is longer than its limit
handedOn(req) ==
    IF req.endpoint = "overlay"
    THEN req.file # <<>> => fileFilter(req.file) /\ req.file.size <= fileSize
    ELSE req.contentLength <= jsonLimit

\* a request arrives at POST /api/overlay and upload.single('image') of
\* line 393 reads its parts.  When fileFilter turns the file down, or the
\* file is longer than limits.fileSize, multer passes the error on; server.js
\* has no error handler, so express answers 500 with a page of HTML and the
\* handler is not entered.  Otherwise the file is in req.file and the
\* handler is next
UploadSingle ==
    /\ pc = "idle"
    /\ \E src \in Sources : \E req \in RequestsFor(src.bytes) :
        /\ req.endpoint = "overlay"
        /\ request' = req
        /\ source' = src
        /\ IF handedOn(req)
           THEN responses' = <<>> /\ pc' = "handler"
           ELSE responses' = <<htmlError(500)>> /\ pc' = "responded"
    /\ calls' = <<>>
    /\ result' = <<>>
    /\ UNCHANGED <<text, files, now>>
    /\ UNCHANGED layoutVars

\* a request arrives at POST /api/overlay-base64 and express.json of line 13
\* reads its body.  A body longer than the limit is answered by express with
\* 413 and a page of HTML, and the handler is not entered
ExpressJson ==
    /\ pc = "idle"
    /\ \E src \in Sources : \E req \in RequestsFor(src.bytes) :
        /\ req.endpoint = "overlay-base64"
        /\ request' = req
        /\ source' = src
        /\ IF handedOn(req)
           THEN responses' = <<>> /\ pc' = "handler"
           ELSE responses' = <<htmlError(413)>> /\ pc' = "responded"
    /\ calls' = <<>>
    /\ result' = <<>>
    /\ UNCHANGED <<text, files, now>>
    /\ UNCHANGED layoutVars

\* the handler of lines 393-487 or 490-608 is entered and runs up to its
\* first await: the two checks, answered with 400 when one fails, then the
\* call of sharp(imageBuffer).metadata(), lines 428-429 or 534-538
OverlayRequest ==
    /\ pc = "handler"
    /\ text' = textOf(request).s
    /\ IF validationError(request) # ""
       THEN /\ responses' = <<jsonError(400, validationError(request), <<>>)>>
            /\ calls' = <<>>
            /\ pc' = "responded"
       ELSE /\ responses' = <<>>
            /\ calls' = <<[op |-> "metadata",
                           buffer |-> imageBufferOf(request)]>>
            /\ pc' = "metadata"
    /\ UNCHANGED <<result, request, source, files, now>>
    /\ UNCHANGED layoutVars

\* the catch block answering without the message of the error
MutCaughtWithoutDetails(message) == jsonError(500, "Failed to process image", <<>>)

\* the catch block of lines 483-486 and 604-607
caught(message) == jsonError(500, "Failed to process image", <<message>>)

\* the handler from its call of createTextSVG on, textSVG being what the
\* call returns: composite, applySharpFormat and the call of toBuffer(),
\* lines 460-472 or 569-581.  When createTextSVG never returns, the handler
\* is left looping in it: nothing is answered, and the server, which runs on
\* the one thread, takes no other request
overlayRendered(metadata, finalFormat, options, textSVG) ==
    IF textSVG = NoReturn
    THEN /\ calls' = Append(calls, [op |-> "createTextSVG", options |-> options])
         /\ pc' = "looping"
         /\ UNCHANGED <<responses, result>>
    ELSE /\ result' = [metadata |-> metadata, finalFormat |-> finalFormat,
                       options |-> options, textSVG |-> textSVG]
         /\ calls' = calls \o
                <<[op |-> "createTextSVG", options |-> options],
                  [op |-> "composite"],
                  [op |-> "encode",
                   format |-> applySharpFormat(finalFormat, metadata)]>>
         /\ responses' = responses
         /\ pc' = "toBuffer"

\* the handler from the options it built on: createTextSVG and what
\* follows it
overlayLaidOut(metadata, finalFormat, options) ==
    overlayRendered(metadata, finalFormat, options, createTextSVG(text, options))

\* metadata() settles.  When the decoder fails, or the buffer is not the
\* image, the catch block answers.  Otherwise the handler runs to its next
\* await: finalFormat, createTextSVG, composite, applySharpFormat and the
\* call of toBuffer(), lines 431-472 or 540-581
OverlayMetadata ==
    /\ pc = "metadata"
    /\ LET imageBuffer == calls[1].buffer
           metadata == [format |-> source.format, width |-> source.width,
                        height |-> source.height]
           finalFormat == finalFormatOf(request, metadata, imageBuffer)
       IN  IF source.failAt = "metadata" \/ imageBuffer # source.bytes
           THEN /\ responses' = Append(responses,
                        caught(IF source.failAt = "metadata" THEN source.message
                               ELSE "Input buffer contains unsupported image format"))
                /\ pc' = "responded"
                /\ UNCHANGED <<calls, result>>
           ELSE overlayLaidOut(metadata, finalFormat,
                               svgOptionsOf(request.body, metadata))
    /\ UNCHANGED <<text, request, source, files, now>>
    /\ UNCHANGED layoutVars

\* the answer that sends the image, lines 474-481, or 583-602 with the
\* JSON body when returnBase64 is set
overlaySent(actualFormat, encoded) ==
    IF request.endpoint = "overlay-base64"
       /\ ~isFalsy(fieldOr(request.body, "returnBase64", Bool(FALSE)))
    THEN [status |-> 200, body |-> "json", format |-> actualFormat,
          dataUriFormat |-> actualFormat, encoded |-> encoded]
    ELSE [status |-> 200, body |-> "image", contentType |-> actualFormat,
          extension |-> actualFormat, encoded |-> encoded]

\* toBuffer() settles.  When the composite or the encoder fails, the catch
\* block answers.  Otherwise the image is sent, lines 474-481, or 583-602
\* with the JSON body when returnBase64 is set
OverlayToBuffer ==
    /\ pc = "toBuffer"
    /\ IF source.failAt \in {"composite", "encode"}
       THEN responses' = Append(responses, caught(source.message))
       ELSE responses' = Append(responses,
                overlaySent(getSharpFormat(result.finalFormat, result.metadata),
                            calls[Len(calls)].format))
    /\ pc' = "responded"
    /\ UNCHANGED <<text, result, request, source, calls, files, now>>
    /\ UNCHANGED layoutVars

\* a call of createTextSVG(text, options); box keeps the options.  A call
\* that never returns is left looping
CreateTextSVG ==
    /\ pc = "idle"
    /\ \E str \in SvgTexts, options \in SvgOptionSets :
        /\ text' = str
        /\ box' = options
        /\ result' = createTextSVG(str, options)
    /\ pc' = IF result' = NoReturn THEN "looping" ELSE "createTextSVG"
    /\ UNCHANGED <<maxWidth, fontSize, fontFamily, fontWeight, low, high,
                   bestResult, probes>>
    /\ UNCHANGED serverVars

\* a millisecond passes
ClockTick ==
    /\ now < MaxClock
    /\ now' = now + 1
    /\ UNCHANGED <<pc, text, result, request, source, calls, responses, files>>
    /\ UNCHANGED layoutVars

\* an upload arrives at POST /api/upload_public: multer asks
\* publicStorage.filename for the name and writes the file under it in the
\* upload directory, whatever is there already.  The handler takes no lock
\* and the uploads in hand are independent, so the calls of filename happen
\* in any order, several in one millisecond
UploadPublic ==
    /\ Len(files) < MaxUploads
    /\ \E random \in 0..MaxRandom, extension \in {".png", ".jpg"} :
        files' = Append(files, publicFilename("image", now, random, extension))
    /\ UNCHANGED <<pc, text, result, request, source, calls, responses, now>>
    /\ UNCHANGED layoutVars

\* a call of calculateOptimalFontSize(text, imageWidth, imageHeight,
\* options) run to its return; box keeps the dimensions and the options with
\* the defaults applied.  A call that never returns is left looping
CalculateOptimalFontSize ==
    /\ pc = "idle"
    /\ \E str \in SvgTexts, im \in SvgBoxes, options \in SolverOptionSets :
        /\ text' = str
        /\ box' = solverBox(im[1], im[2], options)
        /\ result' = calculateOptimalFontSize(str, im[1], im[2], options)
    /\ pc' = IF result' = NoReturn THEN "looping" ELSE "calculateOptimalFontSize"
    /\ UNCHANGED <<maxWidth, fontSize, fontFamily, fontWeight, low, high,
                   bestResult, probes>>
    /\ UNCHANGED serverVars

NextWidth == EstimateTextWidth
NextRender == CreateTextSVG \/ CalculateOptimalFontSize
NextUpload == ClockTick \/ UploadPublic
NextWrap == WrapText \/ WrapAgain \/ BreakLongWord

NextSolve == SolveStart \/ SolveProbe \/ SolveReturn
NextOverlay ==
    UploadSingle \/ ExpressJson \/ OverlayRequest \/ OverlayMetadata \/ OverlayToBuffer
Next == NextWidth \/ NextWrap \/ NextSolve \/ NextRender \/ NextOverlay \/ NextUpload

SpecWidth == Init /\ [][NextWidth]_vars
SpecWrap == Init /\ [][NextWrap]_vars
SpecSolve == Init /\ [][NextSolve]_vars
SpecRender == Init /\ [][NextRender]_vars
SpecOverlay == Init /\ [][NextOverlay]_vars
SpecUpload == Init /\ [][NextUpload]_vars
Spec == Init /\ [][Next]_vars

----------------------------------------------------------------------------
(* Claims *)

\* JavaScript a <= b of two widths
LEW(a, b) == ~a.nan /\ ~b.nan /\ compare(a, b) <= 0

\* the estimated width of a line under the font of the recorded call
widthOf(line) == estimateTextWidth(line, FontSize(fontSize), fontFamily, fontWeight)

\* C1: for a maxWidth above 0, every line wrapText returns has an estimated
\* width of at most maxWidth, or is a single character that cannot be split
\* further
C1_EveryLineFitsOrIsAtomic ==
    (pc = "wrapText" /\ maxWidth > 0) =>
        \A k \in 1..Len(result) :
            LE(widthOf(result[k]), Width(maxWidth)) \/ Len(result[k]) = 1

\* whether the text of the recorded call fits its box at a size
fitsAt(size) == fits(layoutAt(text, box, FontSize(size)), box)

\* whether a number is neither NaN nor infinite
finite(a) == ~a.nan /\ a.inf = 0

\* a <= b and a < b for two numbers by their values to the unit v: false
\* when one is NaN, -Infinity below and Infinity above the finite numbers
atMost(a, b) ==
    /\ ~a.nan
    /\ ~b.nan
    /\ a.inf < b.inf \/ (a.inf = b.inf /\ (a.inf # 0 \/ a.v <= b.v))
below(a, b) ==
    /\ ~a.nan
    /\ ~b.nan
    /\ a.inf < b.inf \/ (a.inf = b.inf /\ a.inf = 0 /\ a.v < b.v)

\* the whole-pixel sizes within the bounds of the recorded call, which are
\* whole pixels themselves
sizesWithinBounds ==
    {size \in {100 * px : px \in 0..30} :
        box.minFontSize.v <= size /\ size <= box.maxFontSize.v}

\* C2: with whole-pixel bounds minFontSize <= maxFontSize, in a box with a
\* width, a height and a usable width above 0, calculateOptimalFontSize
\* returns the largest whole-pixel size within the bounds at which the text
\* fits, whenever there is one
C2_ReturnsLargestFittingSize ==
    (pc = "solved" /\ finite(box.minFontSize) /\ finite(box.maxFontSize)
        /\ box.minFontSize.v <= box.maxFontSize.v
        /\ box.imageWidth > 0 /\ box.imageHeight > 0
        /\ GT(maxTextWidth(box), Width(0))
        /\ \E size \in sizesWithinBounds : fitsAt(size)) =>
        /\ finite(result.fontSize)
        /\ result.fontSize.v \in sizesWithinBounds
        /\ fitsAt(result.fontSize.v)
        /\ \A size \in sizesWithinBounds : fitsAt(size) => size <= result.fontSize.v

\* C3 as stated: for every input, inverted bounds included, the size
\* returned lies within [minFontSize, maxFontSize]
C3_SizeWithinBoundsAlways ==
    pc = "solved" =>
        /\ atMost(box.minFontSize, result.fontSize)
        /\ atMost(result.fontSize, box.maxFontSize)

\* C3: when minFontSize is a number, the size returned is never below
\* minFontSize; it is at most maxFontSize when minFontSize <= maxFontSize,
\* and it is minFontSize itself when the bounds are inverted
C3_SizeWithinBounds ==
    (pc = "solved" /\ ~box.minFontSize.nan) =>
        /\ atMost(box.minFontSize, result.fontSize)
        /\ atMost(box.minFontSize, box.maxFontSize)
               => atMost(result.fontSize, box.maxFontSize)
        /\ below(box.maxFontSize, box.minFontSize)
               => result.fontSize = [nan |-> FALSE, inf |-> box.minFontSize.inf,
                                     v |-> box.minFontSize.v]

C3_Witness ==
    /\ pc = "solved"
    /\ below(box.maxFontSize, box.minFontSize)
    /\ finite(box.minFontSize)
    /\ result.fontSize.v = box.minFontSize.v

C3_WitnessSearched ==
    /\ pc = "solved"
    /\ Len(probes) >= 2
    /\ below(box.minFontSize, result.fontSize)

\* no probe of the search satisfied the fit condition
noProbeFitted == \A k \in 1..Len(probes) : ~probes[k].fits

\* C4: when no probed size fits, also when nothing was probed, the result is
\* minFontSize, the text wrapped at minFontSize in the usable width, and
\* minFontSize times the line-height multiplier, fitting or not
C4_FallbackToMinFontSize ==
    (pc = "solved" /\ noProbeFitted) =>
        /\ result.fontSize = [nan |-> box.minFontSize.nan, inf |-> box.minFontSize.inf,
                              v |-> box.minFontSize.v]
        /\ result.wrappedLines =
               wrapText(text, maxTextWidth(box), box.minFontSize,
                        box.fontFamily, box.fontWeight)
        /\ result.lineHeight = lineHeightOf(box.minFontSize, box.lineHeightMultiplier)
        /\ (finite(box.minFontSize) /\ finite(box.lineHeightMultiplier)) =>
               result.lineHeight
                   = Height(box.minFontSize.v * box.lineHeightMultiplier.v)

C4_Witness ==
    /\ pc = "solved"
    /\ Len(probes) >= 1
    /\ noProbeFitted
    /\ finite(box.minFontSize)
    /\ result.fontSize.v = box.minFontSize.v
    /\ ~fits(result, box)

\* the fallback at a minFontSize that is not a finite number
C4_WitnessNotFinite ==
    /\ pc = "solved"
    /\ noProbeFitted
    /\ ~finite(box.minFontSize)
    /\ result.wrappedLines # <<>>

\* the degenerate inputs: inverted bounds, a box of width or height 0, no
\* usable width, a word wider than the usable width at the smallest size
degenerate ==
    \/ below(box.maxFontSize, box.minFontSize)
    \/ box.imageWidth = 0
    \/ box.imageHeight = 0
    \/ LE(maxTextWidth(box), Width(0))
    \/ GT(estimateTextWidth(text, box.minFontSize, box.fontFamily, box.fontWeight),
          maxTextWidth(box))

\* the whole pixels strictly between the finite bounds of the recorded call:
\* the sizes a search can probe
pixelsBetweenBounds ==
    IF box.maxFontSize.v - box.minFontSize.v > 100
    THEN (box.maxFontSize.v + 99) \div 100 - box.minFontSize.v \div 100 - 1
    ELSE 0

\* C5: on every degenerate input the search terminates and returns: every
\* probe lies strictly between low and high, an iteration runs only while
\* high - low > 1 and leaves high - low smaller, so that between finite
\* bounds there are no more iterations than whole pixels, and a search that
\* has stopped returns a result whose lines, one per word or fragment,
\* are no more than the characters of the text and one
C5_SearchTerminates ==
    /\ []((pc \in {"search", "solved"} /\ degenerate) =>
            /\ \A k \in 1..Len(probes) :
                   /\ below(probes[k].low, probes[k].fontSize)
                   /\ below(probes[k].fontSize, probes[k].high)
            /\ (finite(box.minFontSize) /\ finite(box.maxFontSize))
                   => Len(probes) <= pixelsBetweenBounds)
    /\ [][(pc = "search" /\ pc' = "search" /\ degenerate) =>
            /\ searching(low, high)
            /\ below(difference(high', low'), difference(high, low))]_vars
    /\ [][(pc = "search" /\ degenerate /\ ~searching(low, high)) =>
            /\ pc' = "solved"
            /\ DOMAIN result' = {"fontSize", "wrappedLines", "lineHeight"}
            /\ Len(result'.wrappedLines) <= Len(text) + 1]_vars

\* C6: estimateTextWidth never decreases when the font size grows, and its
\* result is non-negative, 0 for the empty text
C6_WidthMonotonicInFontSize ==
    pc = "estimateTextWidth" =>
        /\ \A size \in Sizes :
               fontSize < size =>
                   LEW(result, estimateTextWidth(text, FontSize(size), fontFamily, fontWeight))
        /\ ~result.nan /\ result.v >= 0
        /\ text = <<>> => result.v = 0

\* the base multiplier as C7 words it: the family's bold multiplier when the
\* weight is bold, its normal multiplier otherwise, and the default pair
\* (0.52, 0.58) for a family absent from the table
C7_Base(family, weight) ==
    LET pair == IF family \in DOMAIN fontMetrics THEN fontMetrics[family]
                ELSE [normal |-> 52, bold |-> 58]
    IN  IF weight = "bold" THEN pair.bold ELSE pair.normal

\* the class factor as C7 words it
C7_ClassFactor(char) ==
    CASE char \in {"i", "I", "l", "1"} -> 40
      [] char \in {"f", "j", "t", "J"} -> 50
      [] char \in {"r", "F"} -> 65
      [] char \in {"m", "w", "M", "W"} -> 150
      [] char = " " -> 30
      [] char \in {".", ",", ";", ":", "!", "|"} -> 35
      [] OTHER -> 100

\* the sum over the characters of str, a surrogate pair being one character
RECURSIVE C7_Sum(_, _, _)
C7_Sum(str, size, base) ==
    IF str = <<>> THEN 0
    ELSE IF Len(str) > 1 /\ isHighSurrogate(str[1]) /\ isLowSurrogate(str[2])
    THEN size * base * 100 + C7_Sum(SubSeq(str, 3, Len(str)), size, base)
    ELSE size * base * C7_ClassFactor(Head(str)) + C7_Sum(Tail(str), size, base)

\* C7: estimateTextWidth is the sum over the characters of
\* fontSize * base * classFactor
C7_WidthIsSumOfCharacterWidths ==
    pc = "estimateTextWidth" =>
        /\ ~result.nan
        /\ result.v = C7_Sum(text, fontSize, C7_Base(fontFamily, fontWeight))

\* whether a string holds a line break
C8_HasBreak(str) == \E n \in 1..Len(str) : str[n] = "\n"

\* the position of the last line break of a string that holds one
C8_LastBreak(str) ==
    CHOOSE n \in 1..Len(str) :
        str[n] = "\n" /\ \A m \in (n + 1)..Len(str) : str[m] # "\n"

\* the lines of one paragraph wrapped on its own: one empty line for an
\* empty paragraph
C8_LinesOf(paragraph) ==
    IF paragraph = <<>> THEN << <<>> >>
    ELSE wrapText(paragraph, Width(maxWidth), FontSize(fontSize), fontFamily, fontWeight)

\* a paragraph with a word gives at least one line and no empty line, and
\* no line of a paragraph holds a line break
C8_ParagraphOk(paragraph) ==
    LET lines == C8_LinesOf(paragraph)
    IN  /\ ~isBlank(paragraph) =>
               Len(lines) >= 1 /\ \A j \in 1..Len(lines) : lines[j] # <<>>
        /\ \A j \in 1..Len(lines) : ~C8_HasBreak(lines[j])

\* the lines of the paragraphs of a string, paragraph after paragraph
RECURSIVE C8_Lines(_)
C8_Lines(str) ==
    IF C8_HasBreak(str)
    THEN LET n == C8_LastBreak(str)
         IN  C8_Lines(SubSeq(str, 1, n - 1)) \o C8_LinesOf(SubSeq(str, n + 1, Len(str)))
    ELSE C8_LinesOf(str)

RECURSIVE C8_ParagraphsOk(_)
C8_ParagraphsOk(str) ==
    IF C8_HasBreak(str)
    THEN LET n == C8_LastBreak(str)
         IN  /\ C8_ParagraphsOk(SubSeq(str, 1, n - 1))
             /\ C8_ParagraphOk(SubSeq(str, n + 1, Len(str)))
    ELSE C8_ParagraphOk(str)

\* C8: every line break is a hard break: the output is the lines of the
\* first paragraph, then those of the second, and so on; an empty paragraph
\* gives exactly one empty line there, a paragraph with a word gives at least
\* one line and no empty line, and no line holds a line break
C8_NewlinesAreHardBreaks ==
    pc = "wrapText" =>
        /\ result = C8_Lines(text)
        /\ C8_ParagraphsOk(text)
        /\ text = LineOneLineThree =>
               result = <<SubSeq(LineOneLineThree, 1, 8), <<>>,
                          SubSeq(LineOneLineThree, 11, 20)>>

C8_Witness ==
    /\ pc = "wrapText"
    /\ text = LineOneLineThree
    /\ Len(result) = 3
    /\ result[2] = <<>>

\* a short text with an empty paragraph between two paragraphs of two lines
C8_WitnessWrapped ==
    /\ pc = "wrapText"
    /\ Len(text) = 4
    /\ text[2] = "\n"
    /\ text[3] = "\n"
    /\ Len(result) = 3
    /\ result[2] = <<>>

\* C9: for a maxWidth above 0, wrapping a line that wrapText returned, at the
\* same width and font, returns that line alone
C9_WrapIsIdempotentOnItsLines ==
    (pc = "wrapAgain" /\ maxWidth > 0) => result = <<text>>

\* a fragment that is the characters of the word from pos on, then an added
\* hyphen
C10_Hyphenated(word, pos, part) ==
    /\ Len(part) >= 2
    /\ part[Len(part)] = "-"
    /\ pos + Len(part) - 2 <= Len(word)
    /\ SubSeq(part, 1, Len(part) - 1) = SubSeq(word, pos, pos + Len(part) - 2)

\* a fragment that is the one character of the word at pos, emitted alone
\* because the character and a hyphen are wider than maxWidth
C10_Alone(word, pos, part) ==
    /\ Len(part) = 1
    /\ pos <= Len(word)
    /\ part[1] = word[pos]
    /\ ~LE(widthOf(Append(part, "-")), Width(maxWidth))

\* the fragments from the j-th on split the word from pos on: every fragment
\* but the last is hyphenated, or alone where that is allowed, and the last
\* is the rest of the word with nothing added
RECURSIVE C10_Splits(_, _, _, _, _)
C10_Splits(word, parts, pos, j, aloneAllowed) ==
    IF j = Len(parts)
    THEN parts[j] = SubSeq(word, pos, Len(word))
    ELSE \/ /\ C10_Hyphenated(word, pos, parts[j])
            /\ C10_Splits(word, parts, pos + Len(parts[j]) - 1, j + 1, aloneAllowed)
         \/ /\ aloneAllowed
            /\ C10_Alone(word, pos, parts[j])
            /\ C10_Splits(word, parts, pos + 1, j + 1, aloneAllowed)

\* the recorded call broke a word wider than maxWidth
C10_BrokeWideWord ==
    pc = "breakLongWord" /\ GT(widthOf(text), Width(maxWidth))

\* every fragment but the last ends with a hyphen
C10_AllButLastEndWithHyphen ==
    \A j \in 1..(Len(result) - 1) : result[j][Len(result[j])] = "-"

\* C10 as stated, for a maxWidth above 0: a word wider than maxWidth breaks
\* into at least 2 fragments when it has 2 characters or more, every fragment
\* but the last ends with an added hyphen and the last has none
C10_BreakAddsHyphenToAllButLast ==
    (C10_BrokeWideWord /\ maxWidth > 0) =>
        /\ Len(text) >= 2 => Len(result) >= 2
        /\ Len(result) = 0 => text = <<>>
        /\ Len(result) >= 1 => C10_Splits(text, result, 1, 1, FALSE)

\* C10: a word wider than maxWidth breaks into at least 2 fragments when it
\* has 2 characters or more; every fragment but the last ends with an added
\* hyphen or is one character emitted alone because the character and a
\* hyphen are wider than maxWidth; the last fragment has no added hyphen; the
\* word of 50 characters at 32px in 100px breaks into fragments that all but
\* the last end with a hyphen
C10_BreakAddsHyphenUnlessAlone ==
    C10_BrokeWideWord =>
        /\ Len(text) >= 2 => Len(result) >= 2
        /\ Len(result) = 0 => text = <<>>
        /\ Len(result) >= 1 => C10_Splits(text, result, 1, 1, TRUE)
        /\ text = FiftyCharWord => Len(result) >= 2 /\ C10_AllButLastEndWithHyphen

\* a broken word with a fragment emitted alone and a hyphenated fragment
C10_Witness ==
    /\ C10_BrokeWideWord
    /\ \E j \in 1..(Len(result) - 1) : Len(result[j]) = 1
    /\ \E j \in 1..(Len(result) - 1) : Len(result[j]) >= 2

\* the word of 50 characters, broken
C10_WitnessFiftyCharWord ==
    /\ C10_BrokeWideWord
    /\ text = FiftyCharWord
    /\ Len(result) = 11

----------------------------------------------------------------------------
(* Claims about the requests *)

\* the handler has called createTextSVG for the request
rendered == pc \in {"toBuffer", "responded"} /\ result # <<>>

\* a field of the body of the request is unset
unset(key) == fieldOr(request.body, key, Undefined).type = "undefined"

\* the box and options the font-size search of the request runs with
searchBox ==
    LET o == svgOptions(result.options)
    IN  solverBox(o.imageWidth, o.imageHeight, svgSolverOptions(o))

\* C11: a request with autoResize on that leaves maxFontSize and minFontSize
\* unset has its font-size search run with maxFontSize = 15% of the shorter
\* image dimension, minFontSize = max(12, 2% of it), maxLines 10, padding 10%
\* and line-height multiplier 1.3
C11_BoundsDefaultFromImage ==
    (rendered /\ result.options.autoResize
        /\ unset("maxFontSize") /\ unset("minFontSize")
        /\ unset("paddingPercent") /\ unset("lineHeightMultiplier")) =>
        LET shorter == MathMin(source.width, source.height)
        IN  /\ searchBox.maxFontSize.v = 15 * shorter
            /\ searchBox.minFontSize.v = MathMax(1200, 2 * shorter)
            /\ searchBox.maxLines = 10
            /\ searchBox.paddingPercent = Whole(10)
            /\ searchBox.lineHeightMultiplier = Fraction(130, 2)

----------------------------------------------------------------------------
(* Claims about createTextSVG *)

\* the options of the recorded call of createTextSVG, defaults applied
svgCall == svgOptions(box)

\* the recorded call is createTextSVG("Hello World") on 800x600 with every
\* option but autoResize at its default
C12_HelloWorldCall ==
    /\ pc = "createTextSVG"
    /\ text = HelloWorld
    /\ svgCall = svgOptions([autoResize |-> svgCall.autoResize])

\* C12: "Hello World" on 800x600 with the default options: with autoResize
\* off the layout is the one line "Hello World" at font size 32; with
\* autoResize on it is at a computed size from 12 to 100 at which every line
\* has an estimated width of at most 720 (90% of 800)
C12_HelloWorldScenario ==
    C12_HelloWorldCall =>
        /\ ~svgCall.autoResize =>
               /\ result.fontSize = Whole(3200)
               /\ Len(result.textElements) = 1
               /\ result.textElements[1].line = HelloWorld
        /\ svgCall.autoResize =>
               /\ ~result.fontSize.nan
               /\ 1200 <= result.fontSize.v /\ result.fontSize.v <= 10000
               /\ Len(result.textElements) >= 1
               /\ \A k \in 1..Len(result.textElements) :
                      LE(estimateTextWidth(result.textElements[k].line,
                                           FontSize(result.fontSize.v), "Arial",
                                           "normal"),
                         Width(720000000))

\* the call of the scenario with autoResize on: one line at 99
C12_Witness ==
    /\ C12_HelloWorldCall
    /\ svgCall.autoResize
    /\ result.fontSize = Whole(9900)
    /\ Len(result.textElements) = 1

\* the call of the scenario with autoResize off: one line at 32
C12_WitnessFixedSize ==
    /\ C12_HelloWorldCall
    /\ ~svgCall.autoResize
    /\ result.fontSize = Whole(3200)
    /\ Len(result.textElements) = 1

\* the anchor of the k-th line of the recorded call, in 1/20000 px (the
\* calls are made with numbers, and with the multiplier 1.3)
C13_AnchorY(k) == result.textElements[k].y.v

\* imageHeight * (paddingPercent / 100), the vertical padding, in 1/20000 px
C13_VerticalPadding == 2 * (svgCall.imageHeight * svgCall.paddingPercent.v * 100)

\* C13: the vertical zone follows from positionY alone.  In every zone line i
\* is anchored at y + i * lineHeight, so the anchors go down the image in
\* the order of the lines.  Top, positionY <= 25: the first anchor is one
\* line height below the vertical padding.  Bottom, positionY >= 75: the
\* last anchor is imageHeight minus the vertical padding.  Otherwise the
\* block, from one line height above the first anchor to the last anchor,
\* has its middle at positionY percent of imageHeight
C13_VerticalZoneFromPositionY ==
    pc = "createTextSVG" =>
        LET count == Len(result.textElements)
            lineHeight == 2 * result.lineHeight.v
            imageHeight == 2 * (svgCall.imageHeight * 10000)
            target == 2 * (svgCall.imageHeight * svgCall.positionY.v * 100)
        IN  /\ count >= 1
            /\ \A k \in 1..count :
                   ~result.textElements[k].y.nan /\ result.textElements[k].y.inf = 0
            /\ \A k \in 1..count :
                   C13_AnchorY(k) = C13_AnchorY(1) + (k - 1) * lineHeight
            /\ \A k \in 1..(count - 1) : C13_AnchorY(k) < C13_AnchorY(k + 1)
            /\ svgCall.positionY.v <= 25 =>
                   C13_AnchorY(1) - lineHeight = C13_VerticalPadding
            /\ svgCall.positionY.v >= 75 =>
                   C13_AnchorY(count) = imageHeight - C13_VerticalPadding
            /\ (25 < svgCall.positionY.v /\ svgCall.positionY.v < 75) =>
                   (C13_AnchorY(1) - lineHeight) + C13_AnchorY(count) = 2 * target

\* a text of several lines placed at the boundary of the bottom zone
C13_Witness ==
    /\ pc = "createTextSVG"
    /\ svgCall.positionY = Whole(75)
    /\ svgCall.paddingPercent = Whole(10)
    /\ Len(result.textElements) >= 3
    /\ C13_AnchorY(Len(result.textElements))
           = 2 * (svgCall.imageHeight * 10000) - C13_VerticalPadding

\* a text of several lines placed at the boundary of the top zone
C13_WitnessTop ==
    /\ pc = "createTextSVG"
    /\ svgCall.positionY = Whole(25)
    /\ Len(result.textElements) >= 3
    /\ C13_AnchorY(1) = C13_VerticalPadding + 2 * result.lineHeight.v

\* the request in hand lacks its image: no file, or imageBase64 absent or
\* empty
C14_ImageMissing ==
    IF request.endpoint = "overlay" THEN request.file = <<>>
    ELSE \/ "imageBase64" \notin DOMAIN request.body
         \/ request.body.imageBase64 = Str(<<>>)

\* the request in hand lacks its text: absent or empty
C14_TextMissing ==
    "text" \notin DOMAIN request.body \/ request.body.text = Str(<<>>)

\* C14: a request that lacks its image or its text is answered with 400 and
\* a JSON error body, once, and no codec call and no layout call is made for
\* it; the image is checked first, so POST /api/overlay without the file
\* answers 400 {error: "No image file provided"} whatever the other fields
C14_ValidationBeforeAnyWork ==
    (request # <<>> /\ pc # "handler") =>
        /\ (C14_ImageMissing \/ C14_TextMissing) =>
               /\ pc = "responded"
               /\ Len(responses) = 1
               /\ responses[1].status = 400
               /\ responses[1].body = "json"
               /\ responses[1].error # ""
               /\ calls = <<>>
               /\ result = <<>>
        /\ C14_ImageMissing =>
               responses[1].error = IF request.endpoint = "overlay"
                                    THEN "No image file provided"
                                    ELSE "imageBase64 is required"
        /\ (~C14_ImageMissing /\ C14_TextMissing) =>
               responses[1].error \in {"Text is required", "text is required"}

\* the handler of the request in hand is left looping in createTextSVG, so
\* that the steps after it, the composite and the encoder, are never reached
C15_NeverRendered == pc = "looping"

\* how many calls of an operation were made for the request in hand
C15_CallCount(op) == Cardinality({k \in 1..Len(calls) : calls[k].op = op})

\* the codec step that fails for the request in hand once validation has
\* passed, "none" when none does: the metadata decode when the buffer handed
\* to it is not the image, and otherwise the step the codec is set to fail
C15_FailedStep ==
    IF ~handedOn(request) \/ C14_ImageMissing \/ C14_TextMissing THEN "none"
    ELSE IF imageBufferOf(request) # source.bytes THEN "metadata"
    ELSE IF source.failAt \in {"composite", "encode"} /\ C15_NeverRendered THEN "none"
    ELSE source.failAt

\* C15: when a codec step fails after validation has passed, the request is
\* answered exactly once, with 500 and a JSON body that carries the message
\* of the error; no step is called twice, nothing is called after the failed
\* step, and no image is sent
C15_CodecFailureAnswered500 ==
    (request # <<>> /\ pc # "handler" /\ C15_FailedStep # "none") =>
        /\ Len(responses) <= 1
        /\ \A op \in {"metadata", "createTextSVG", "composite", "encode"} :
               C15_CallCount(op) <= 1
        /\ C15_FailedStep = "metadata" => Len(calls) = 1
        /\ pc = "responded" =>
               /\ Len(responses) = 1
               /\ responses[1].status = 500
               /\ responses[1].body = "json"
               /\ responses[1].error = "Failed to process image"
               /\ Len(responses[1].details) = 1
               /\ imageBufferOf(request) = source.bytes =>
                      responses[1].details = <<source.message>>
               /\ C15_CallCount(C15_FailedStep) = 1

\* the encoder failed for a request to /api/overlay-base64 that asked for a
\* JSON answer, and the request was answered with 500
C15_Witness ==
    /\ request # <<>>
    /\ request.endpoint = "overlay-base64"
    /\ "returnBase64" \in DOMAIN request.body
    /\ source.failAt = "encode"
    /\ pc = "responded"
    /\ responses = <<jsonError(500, "Failed to process image", <<source.message>>)>>
    /\ C15_CallCount("encode") = 1

\* the decoder failed for a request to /api/overlay
C15_WitnessMetadata ==
    /\ request # <<>>
    /\ request.endpoint = "overlay"
    /\ source.failAt = "metadata"
    /\ pc = "responded"
    /\ responses = <<jsonError(500, "Failed to process image", <<source.message>>)>>

\* the request in hand asks for the output format "auto", by name or by
\* leaving outputFormat unset
C16_AutoRequested ==
    unset("outputFormat") \/ request.body.outputFormat = Str(<<"a", "u", "t", "o">>)

\* the format "auto" stands for as C16 words it: the format the decoder
\* reports for the source; what the first bytes tell when it reports none;
\* the fixed default when they tell nothing
C16_SourceFormat ==
    IF source.format # <<>> THEN source.format
    ELSE IF detectImageFormat(source.bytes) # <<>> THEN detectImageFormat(source.bytes)
    ELSE <<"j", "p", "g">>

\* the format an answered request names: Content-Type, or the format field
\* of the JSON answer
C16_AnsweredFormat ==
    IF responses[1].body = "image" THEN responses[1].contentType
    ELSE responses[1].format

\* C16: with outputFormat "auto" the format of the answer is the decoded
\* format of the source (image/jpeg for a JPEG source), the format told by
\* the first bytes only when the decoder reports none, the default only when
\* the bytes tell none either; no other field of the request, the media type
\* of a data-URI prefix included, changes it
C16_AutoKeepsSourceFormat ==
    (request # <<>> /\ pc = "responded" /\ Len(responses) = 1
        /\ responses[1].status = 200 /\ C16_AutoRequested) =>
        /\ C16_AnsweredFormat
               = getSharpFormat(C16_SourceFormat, [format |-> source.format])
        /\ source.format = <<"j", "p", "e", "g">> => C16_AnsweredFormat = <<"j", "p", "e", "g">>

\* the recognized names of output formats
C17_Recognized ==
    {<<"j", "p", "g">>, <<"j", "p", "e", "g">>, <<"p", "n", "g">>, <<"w", "e", "b", "p">>, <<"g", "i", "f">>, <<"t", "i", "f", "f">>,
     <<"t", "i", "f">>, <<"b", "m", "p">>, <<"a", "v", "i", "f">>, <<"h", "e", "i", "f">>, <<"h", "e", "i", "c">>, <<"a", "u", "t", "o">>}

\* the request in hand names an output format that is not recognized in
\* any letter case, passes validation, and no codec step fails for it
C17_UnrecognizedRequested ==
    /\ request # <<>>
    /\ ~unset("outputFormat")
    /\ toLowerCase(request.body.outputFormat.s) \notin C17_Recognized
    /\ handedOn(request)
    /\ C15_FailedStep = "none"
    /\ ~(C14_ImageMissing \/ C14_TextMissing)

\* C17: a request whose outputFormat is not a recognized name does not fail
\* for it: it completes with an image, and getSharpFormat (the format the
\* answer names) and applySharpFormat (the encoder used) both select the
\* format of the source when it is known, PNG otherwise
C17_UnrecognizedFormatDegrades ==
    (C17_UnrecognizedRequested /\ pc = "responded") =>
        LET default == IF source.format # <<>> THEN source.format ELSE <<"p", "n", "g">>
        IN  /\ Len(responses) = 1
            /\ responses[1].status = 200
            /\ C16_AnsweredFormat = default
            /\ responses[1].encoded = default

----------------------------------------------------------------------------
(* Claims about the public uploads *)

\* C18: any two uploads to /api/upload_public, in any interleaving and also
\* within one millisecond, are written under different names, so that no
\* upload overwrites another although no lock is taken
C18_UploadNamesNeverCollide ==
    \A i, j \in 1..Len(files) : i # j => files[i] # files[j]

----------------------------------------------------------------------------
(* Claims about calculateOptimalFontSize as one call *)

\* C19: the font size of every result of calculateOptimalFontSize is a whole
\* number of pixels, whether the bounds are given as whole pixels or come
\* from the dimensions of the box, also when the result is the fallback at
\* minFontSize
C19_FontSizeIsWholePixels ==
    pc = "calculateOptimalFontSize" =>
        finite(result.fontSize) /\ result.fontSize.v % 100 = 0

----------------------------------------------------------------------------
(* Claims about the fit predicate *)

\* the font sizes the fit is compared at, in 1/100 px: 12, 13, 18 and 30 px
C20_Sizes == {1200, 1300, 1800, 3000}

\* the layout of the text of the recorded call in its box at a size: the
\* lines of wrapText in the usable width, and the size times the multiplier
C20_LayoutAt(size) == layoutAt(text, box, FontSize(size))

\* at the larger of two sizes wrapText returns at least as many lines
C20_LineCountIsMonotonic ==
    (pc = "search" /\ probes = <<>>) =>
        \A smaller, larger \in C20_Sizes :
            smaller < larger =>
                Len(C20_LayoutAt(smaller).wrappedLines)
                    <= Len(C20_LayoutAt(larger).wrappedLines)

\* C20: with the text, the box, the family, the weight, the padding, the
\* line-height multiplier and maxLines of a call fixed, wrapText returns at
\* a larger font size at least as many lines, and the fit condition of
\* calculateOptimalFontSize, once false at a size, is false at every larger
\* size
C20_FitIsMonotonicInFontSize ==
    (pc = "search" /\ probes = <<>>) =>
        \A smaller, larger \in C20_Sizes :
            smaller < larger =>
                /\ Len(C20_LayoutAt(smaller).wrappedLines)
                       <= Len(C20_LayoutAt(larger).wrappedLines)
                /\ ~fits(C20_LayoutAt(smaller), box) => ~fits(C20_LayoutAt(larger), box)

----------------------------------------------------------------------------
(* Claims about the fragments and the lines *)

\* a fragment closed at pos with the hyphen when the fragment, the next
\* character of the word and a hyphen would exceed maxWidth
C21_ClosedOnOverflow(word, pos, part) ==
    /\ C10_Hyphenated(word, pos, part)
    /\ pos + Len(part) - 1 <= Len(word)
    /\ GT(widthOf(SubSeq(word, pos, pos + Len(part) - 1) \o <<"-">>), Width(maxWidth))

\* a fragment that is the one character of the word at pos, emitted alone
\* because its own width exceeds maxWidth
C21_AloneTooWide(word, pos, part) ==
    /\ Len(part) = 1
    /\ pos <= Len(word)
    /\ part[1] = word[pos]
    /\ GT(widthOf(part), Width(maxWidth))

\* the fragments from the j-th on are the maximal fragments of the word from
\* pos on
RECURSIVE C21_Maximal(_, _, _, _)
C21_Maximal(word, parts, pos, j) ==
    IF j = Len(parts)
    THEN parts[j] = SubSeq(word, pos, Len(word))
    ELSE \/ /\ C21_ClosedOnOverflow(word, pos, parts[j])
            /\ C21_Maximal(word, parts, pos + Len(parts[j]) - 1, j + 1)
         \/ /\ C21_AloneTooWide(word, pos, parts[j])
            /\ C21_Maximal(word, parts, pos + 1, j + 1)

\* C21: breakLongWord builds maximal fragments: a fragment is closed with
\* its hyphen only when the fragment, the next character and a hyphen would
\* exceed maxWidth, the next fragment starts with that character, and a
\* character is emitted alone only when its own width exceeds maxWidth
C21_FragmentsAreMaximal ==
    (C10_BrokeWideWord /\ maxWidth > 0 /\ Len(result) >= 1) =>
        C21_Maximal(text, result, 1, 1)

\* the elements of a sequence
Range(seq) == {seq[n] : n \in DOMAIN seq}

\* the lines wrapText returns for one paragraph of the recorded call: the
\* result itself when the text is that paragraph
C22_LinesOf(paragraph) ==
    IF paragraph = text THEN result
    ELSE wrapText(paragraph, Width(maxWidth), FontSize(fontSize), fontFamily, fontWeight)

\* no word of the paragraph is wider than maxWidth
C22_NoWideWord(paragraph) ==
    \A word \in Range(splitWhitespace(paragraph, Len(paragraph))) :
        ~GT(widthOf(word), Width(maxWidth))

\* the first word of a line: its characters before the first white space
C22_FirstWord(line) ==
    LET spaces == {n \in 1..Len(line) : isWhitespace(line[n])}
    IN  IF spaces = {} THEN line
        ELSE SubSeq(line, 1, (CHOOSE n \in spaces : \A m \in spaces : n <= m) - 1)

\* every line but the last was closed because the first word of the next
\* line would overflow it
C22_Greedy(lines) ==
    \A k \in 1..(Len(lines) - 1) :
        GT(widthOf(lines[k] \o <<" ">> \o C22_FirstWord(lines[k + 1])), Width(maxWidth))

\* C22: within one paragraph in which no word is wider than maxWidth, for
\* every pair of consecutive lines A, B of wrapText the trial line A, a
\* space and the first word of B has an estimated width above maxWidth
C22_WrapIsGreedy ==
    pc = "wrapText" =>
        \A paragraph \in Range(splitChars(text, Len(text), "\n")) :
            C22_NoWideWord(paragraph) => C22_Greedy(C22_LinesOf(paragraph))

----------------------------------------------------------------------------
(* Claims about the result of the search *)

\* the sizes the search probed that satisfied the fit condition
C23_FittingProbes == {probes[k].fontSize : k \in {n \in 1..Len(probes) : probes[n].fits}}

\* the shorter side of the box of the recorded call
C23_ShorterSide ==
    IF box.imageWidth <= box.imageHeight THEN box.imageWidth ELSE box.imageHeight

\* twice the padding of the recorded call, Math.min(imageWidth, imageHeight) *
\* (paddingPercent / 100) * 2, in 1/100 px, for a finite paddingPercent
C23_Padding2 == 2 * C23_ShorterSide * box.paddingPercent.v

\* a side of the box less twice the padding, to the unit given, for the
\* expression x that computes it: NaN when paddingPercent is NaN or the
\* padding is 0 * Infinity, infinite against the sign of an infinite padding
C23_Usable(side, unit, x) ==
    IF box.paddingPercent.nan \/ (box.paddingPercent.inf # 0 /\ C23_ShorterSide = 0)
    THEN [nan |-> TRUE, inf |-> 0, v |-> 0, x |-> Decimal(0, 0)]
    ELSE IF box.paddingPercent.inf # 0
    THEN [nan |-> FALSE, inf |-> 0 - box.paddingPercent.inf, v |-> 0,
          x |-> Decimal(0, 0)]
    ELSE [nan |-> FALSE, inf |-> 0, v |-> unit * (100 * side - C23_Padding2), x |-> x]

\* imageHeight less twice the padding, a number in the unit of the line
\* height (1/10000 px for a multiplier of two decimals), and imageWidth less
\* twice the padding, a number of 1/1000000 px
C23_UsableHeight ==
    C23_Usable(box.imageHeight, Pow10(box.lineHeightMultiplier.k),
               Minus(Decimal(box.imageHeight, 0), doublePadding(box)))
C23_UsableWidth ==
    C23_Usable(box.imageWidth, 10000,
               Minus(Decimal(box.imageWidth, 0), doublePadding(box)))

\* the returned size times the multiplier: a height
C23_LineHeight ==
    IF finite(result.fontSize) /\ finite(box.lineHeightMultiplier)
    THEN Height(result.fontSize.v * box.lineHeightMultiplier.v)
    ELSE IF result.fontSize.nan \/ box.lineHeightMultiplier.nan
            \/ signOf(result.fontSize) * signOf(box.lineHeightMultiplier) = 0
    THEN NaNHeight
    ELSE InfiniteHeight(signOf(result.fontSize) * signOf(box.lineHeightMultiplier))

\* C23: when calculateOptimalFontSize returns a size taken from the search,
\* the result fits: its lines times its line height are at most imageHeight
\* less twice the padding, its lines are at most maxLines, they are wrapText
\* of the text at the returned size in imageWidth less twice the padding, the
\* line height is the size times the multiplier, and the size is the largest
\* probed size that satisfied the fit condition
C23_SearchedResultFits ==
    (pc = "solved" /\ C23_FittingProbes # {}) =>
        /\ heightLE(totalTextHeight(result, box), C23_UsableHeight)
        /\ Len(result.wrappedLines) <= box.maxLines
        /\ result.wrappedLines =
               wrapText(text, C23_UsableWidth, sizeOf(result.fontSize),
                        box.fontFamily, box.fontWeight)
        /\ result.lineHeight = C23_LineHeight
        /\ result.fontSize \in C23_FittingProbes
        /\ \A size \in C23_FittingProbes : atMost(size, result.fontSize)

\* a search in a box with a width whose first probe fitted and whose last
\* did not, which returns two lines or more at the fitting size
C23_Witness ==
    /\ pc = "solved"
    /\ Len(probes) >= 2
    /\ probes[1].fits
    /\ ~probes[Len(probes)].fits
    /\ result.fontSize = probes[1].fontSize
    /\ Len(result.wrappedLines) >= 2
    /\ box.imageWidth > 0

----------------------------------------------------------------------------
(* Claims about the text kept by wrapText and breakLongWord *)

C24_IsVisible(char) == ~isWhitespace(char)
C24_IsWord(word) == word # <<>>
C24_IsEmptyLine(line) == line = <<>>

\* the non-empty words a text holds between its white space
C24_WordsOf(str) == SelectSeq(splitWhitespace(str, Len(str)), C24_IsWord)

\* out from its n-th character on gives inp from its k-th character on once
\* its spaces and its added hyphens are deleted; an added hyphen ends a
\* fragment, so it is followed by a space or ends the line
RECURSIVE C24_Gives(_, _, _, _)
C24_Gives(out, n, inp, k) ==
    IF n > Len(out) THEN k > Len(inp)
    ELSE \/ /\ k <= Len(inp)
            /\ out[n] = inp[k]
            /\ C24_Gives(out, n + 1, inp, k + 1)
         \/ /\ out[n] = " "
            /\ C24_Gives(out, n + 1, inp, k)
         \/ /\ out[n] = "-"
            /\ n = Len(out) \/ out[n + 1] = " "
            /\ C24_Gives(out, n + 1, inp, k)

\* no word of the text of the recorded call is wider than maxWidth
C24_NoWideWord ==
    \A k \in 1..Len(C24_WordsOf(text)) : ~GT(widthOf(C24_WordsOf(text)[k]), Width(maxWidth))

\* the output lines one after the other, a space between two lines
C24_Output == joinSpace(result)

\* C24, first part: deleting the spaces and the hyphens added by word
\* breaking from the output lines of wrapText gives the characters of the
\* input that are not white space, in their order
C24_WrapKeepsCharacters ==
    pc = "wrapText" =>
        C24_Gives(C24_Output, 1, SelectSeq(text, C24_IsVisible), 1)

\* C24: wrapText neither loses, duplicates nor reorders text: the first
\* part, and when no word is wider than maxWidth the words read off the
\* output lines are the words of the input in their order and there are as
\* many empty output lines as blank paragraphs
C24_WrapKeepsText ==
    pc = "wrapText" =>
        /\ C24_Gives(C24_Output, 1, SelectSeq(text, C24_IsVisible), 1)
        /\ C24_NoWideWord =>
            /\ C24_WordsOf(C24_Output) = C24_WordsOf(text)
            /\ Len(SelectSeq(result, C24_IsEmptyLine))
                   = Len(SelectSeq(splitChars(text, Len(text), "\n"), isBlank))

\* the fragments from the j-th on give the word from pos on when they are
\* concatenated, each as it is or without a hyphen that ends it
RECURSIVE C25_Rejoins(_, _, _, _)
C25_Rejoins(word, parts, pos, j) ==
    IF j > Len(parts) THEN pos = Len(word) + 1
    ELSE \/ /\ pos + Len(parts[j]) - 1 <= Len(word)
            /\ parts[j] = SubSeq(word, pos, pos + Len(parts[j]) - 1)
            /\ C25_Rejoins(word, parts, pos + Len(parts[j]), j + 1)
         \/ /\ Len(parts[j]) >= 2
            /\ parts[j][Len(parts[j])] = "-"
            /\ pos + Len(parts[j]) - 2 <= Len(word)
            /\ SubSeq(parts[j], 1, Len(parts[j]) - 1)
                   = SubSeq(word, pos, pos + Len(parts[j]) - 2)
            /\ C25_Rejoins(word, parts, pos + Len(parts[j]) - 1, j + 1)

\* C25 as stated, for a maxWidth above 0: for every word, the empty one
\* included, the fragments without their added hyphens give the word, no
\* fragment is empty, and a word that fits maxWidth is returned as the single
\* fragment [word]
C25_BreakIsLosslessNoEmptyFragment ==
    (pc = "breakLongWord" /\ maxWidth > 0) =>
        /\ C25_Rejoins(text, result, 1, 1)
        /\ \A j \in 1..Len(result) : result[j] # <<>>
        /\ LE(widthOf(text), Width(maxWidth)) => result = <<text>>

\* C25: breakLongWord is a lossless split: the fragments without their added
\* hyphens, concatenated in order, give the word; no fragment of a word that
\* has a character is empty; a word that fits maxWidth is returned as the
\* single fragment [word], which for the empty word is one empty fragment
C25_BreakIsLossless ==
    pc = "breakLongWord" =>
        /\ C25_Rejoins(text, result, 1, 1)
        /\ text # <<>> => \A j \in 1..Len(result) : result[j] # <<>>
        /\ LE(widthOf(text), Width(maxWidth)) => result = <<text>>
        /\ (text = <<>> /\ maxWidth >= 0) => result = << <<>> >>

\* a word with a hyphen of its own, broken into three fragments or more with
\* an added hyphen
C25_Witness ==
    /\ pc = "breakLongWord"
    /\ Len(result) >= 3
    /\ \E n \in 1..Len(text) : text[n] = "-"
    /\ \E n \in 1..Len(text) : text[n] # "-"
    /\ Len(result[1]) >= 2
    /\ result[1][Len(result[1])] = "-"
    /\ result[1] # SubSeq(text, 1, Len(result[1]))

\* a word that fits, returned as it is
C25_WitnessFits ==
    /\ pc = "breakLongWord"
    /\ Len(text) >= 2
    /\ LE(widthOf(text), Width(maxWidth))
    /\ result = <<text>>

----------------------------------------------------------------------------
(* Claims about the format of the answer and the data-URI prefix *)

\* the request was answered with the image
C26_Succeeded ==
    /\ request # <<>>
    /\ pc = "responded"
    /\ Len(responses) = 1
    /\ responses[1].status = 200

\* C26: in every successful answer of either endpoint the format of the
\* Content-Type header and of the filename extension, or of the JSON format
\* field and of the data URI, is the format in which applySharpFormat
\* encoded the bytes, whatever the outputFormat requested and the format of
\* the source
C26_LabelIsEncodedFormat ==
    C26_Succeeded =>
        IF responses[1].body = "image"
        THEN /\ responses[1].contentType = responses[1].encoded
             /\ responses[1].extension = responses[1].encoded
        ELSE /\ responses[1].format = responses[1].encoded
             /\ responses[1].dataUriFormat = responses[1].encoded

\* the request went to /api/overlay-base64 and its handler decoded imageBase64
C27_Decoded ==
    /\ request # <<>>
    /\ request.endpoint = "overlay-base64"
    /\ Len(calls) >= 1
    /\ calls[1].op = "metadata"

\* the payload of a data URI: what follows its first comma
C27_Payload(chars) ==
    LET commas == {n \in 1..Len(chars) : chars[n] = ","}
    IN  IF commas = {} THEN chars
        ELSE SubSeq(chars, (CHOOSE n \in commas : \A m \in commas : n <= m) + 1,
                    Len(chars))

\* C27: in POST /api/overlay-base64, whenever a format is detected from the
\* data-URI prefix of imageBase64 the bytes handed to the decoder are the
\* decoding of the payload alone, and when none is detected they are the
\* decoding of the whole string
C27_DetectedPrefixIsStripped ==
    C27_Decoded =>
        LET imageBase64 == request.body.imageBase64.s
        IN  IF detectedFormat(imageBase64) # <<>>
            THEN calls[1].buffer
                     = bufferFromBase64(C27_Payload(imageBase64))
            ELSE calls[1].buffer = bufferFromBase64(imageBase64)

====
